---- MODULE Spec2Model ----
(***************************************************************************)
(* Model of src/src/models/job_scraper.py: RateLimiter, ExponentialBackoff *)
(* and JobScraper.                                                         *)
(*                                                                         *)
(* Time is counted in ticks of half a second: every duration the module    *)
(* writes (0.5, 1.0, 1.5, 2.0, 2.5, 3.0, 60, 3600 seconds) is a whole      *)
(* number of ticks.  The program runs on one asyncio event loop, so each   *)
(* action below is the code between two awaits of one coroutine.           *)
(***************************************************************************)
EXTENDS Integers, Sequences, FiniteSets, TLC

\* ---------------------------------------------------------------- bounds
MaxTasks == 2        \* coroutines alive in one scenario
MaxSkew == 1         \* ticks that may pass between two datetime.now() reads of one step
MaxRows == 1         \* rows of a DataFrame returned by jobspy
MaxRetries == 2      \* largest RetryConfig.max_retries tried
FetchTicks == 1      \* ticks one jobspy call takes
MaxQueries == 3      \* queries given to batch_scrape_async
MaxAttempt == 4      \* largest attempt number given to calculate_delay
MaxCalls == 3        \* acquire calls one caller makes in a row
MaxThreads == 2      \* threads using the database module
MaxOps == 2          \* calls each thread makes after its first get_database
MaxDbRows == 1       \* rows inserted into one table
MaxRequests == 2     \* calls of the search_jobs endpoint
MaxPoolSize == 2     \* largest pool_size given to ConnectionPool directly

\* ------------------------------------------------------ program constants
MinuteWindow == 120              \* 60 s
HourWindow == 7200               \* 3600 s
JitterMax == 1                   \* random.uniform(0, 0.5) s
DefaultRequestsPerMinute == 10
DefaultRequestsPerHour == 100
DefaultMinDelay == 2             \* 1.0 s
InitialDelay == 2                \* RetryConfig.initial_delay = 1.0 s
MaxDelay == 120                  \* RetryConfig.max_delay = 60.0 s
ExponentialBase == 2             \* RetryConfig.exponential_base

FloatMaxExp == 1024              \* float ** int raises OverflowError from 2.0 ** 1024 on
BatchDelay == 4                  \* asyncio.sleep(2.0) between batches
PoolSize == 5                    \* ConnectionPool pool_size default
DefaultMaxRetries == 3           \* RetryConfig.max_retries default

NoTime == -1                     \* last_request_time = None

TaskIds == 1..MaxTasks

\* JobSite values that RateLimiter.__init__ configures, and one it does not.
ConfiguredSites == {"indeed", "linkedin"}
Platforms == ConfiguredSites \cup {"other"}

\* RateLimitConfig values (requests_per_minute, requests_per_hour,
\* min_delay_seconds).  RateLimiter.configs is a plain dict and JobScraper
\* takes the RateLimiter as an argument, so a policy is an input; Policies are
\* values small enough for each limit to bind with a few callers.
RateLimitConfig(m, h, d) ==
    [requests_per_minute |-> m, requests_per_hour |-> h, min_delay_seconds |-> d]

Policies ==
    { RateLimitConfig(1, 2, 0), RateLimitConfig(2, 1, 4), RateLimitConfig(2, 2, 4) }

\* RetryConfig
RetryConfigs ==
    [max_retries : 0..MaxRetries, initial_delay : {InitialDelay},
     max_delay : {3, MaxDelay}, exponential_base : {ExponentialBase},
     jitter : BOOLEAN]

Errors == {"timeout", "blocked"}

VARIABLES
    clock,          \* datetime.now() / loop time, in ticks
    configs,        \* RateLimiter.configs
    trackers,       \* RateLimiter.trackers: platform -> RequestTracker
    grants,         \* per platform, the instants recorded as grants (history)
    retry_config,   \* ExponentialBackoff.config
    scrape_jobs,    \* the jobspy entry point, or "None" when the import failed
    kind,           \* per task: "caller" (bare acquire), "pipeline" (scrape_jobs_async)
    site,           \* per task: platform argument
    pc,             \* per task: position in its coroutine
    wake,           \* per task: instant its pending sleep / await is due
    attempt,        \* per task: retry_async loop index
    last_exception, \* per task: retry_async local
    outcomes,       \* per task: what each jobspy call of _scrape produced (history)
    backoffs,       \* per task: the delays slept between attempts (history)
    retry_result,   \* per task: what retry_async returned or raised
    result,         \* per task: what scrape_jobs_async returned
    sites,          \* argument of scrape_multiple_sites_async
    output,         \* its return value
    mpc,            \* its position
    queries,        \* argument of batch_scrape_async: the site_name of each query
    batch_size,     \* argument of batch_scrape_async
    batch_i,        \* its loop variable i
    bresults,        \* its local bresults
    bpc,            \* its position
    bwake,          \* instant its sleep between batches is due
    chunks,         \* how many batches it has started (history)
    pacing,         \* after which batch each sleep between batches began (history)
    query_outcome,  \* per query, what its scrape_jobs_async coroutine returned (history)
    delay_log,      \* the calls of calculate_delay made so far (history)
    call_times,     \* per task: the instants at which it called acquire (history)
    db_instance,    \* database._db_instance
    db_lock,        \* database._db_lock: 0 or the thread holding it
    pool,           \* Database._pool: 0 for None, else the identity of a ConnectionPool
    pool_lock,      \* Database._lock: 0 or the thread holding it
    constructed,    \* how many ConnectionPool objects were constructed (history)
    schema,         \* the tables and indices of the database file (sqlite_master)
    table_rows,     \* rows stored per table
    schema_log,     \* the database before and after each initialize_schema call (history)
    tpc,            \* per thread: position
    top,            \* per thread: the public function it is in
    tgot,           \* per thread: the pool it works on: what get_pool returned, or close read
    tops,           \* per thread: calls started so far
    acq,            \* per task: its calls of acquire and the course of the latest (history)
    fetches,        \* per task: the instants at which _scrape was invoked (history)
    api_calls,      \* calls of the search_jobs endpoint served so far (history)
    conns,          \* every sqlite3 connection created so far, by identity
    pools,          \* every ConnectionPool constructed so far, by identity
    conn,           \* per thread: the local conn of get_connection, 0 for None
    exited,         \* per thread: how it left its latest get_connection context (history)
    db_path         \* per thread: self.db_path of the Database it calls

vars == << clock, configs, trackers, grants, retry_config, scrape_jobs, kind,
           site, pc, wake, attempt, last_exception, outcomes, backoffs,
           retry_result, result, sites, output, mpc, queries, batch_size,
           batch_i, bresults, bpc, bwake, chunks, pacing, query_outcome,
           delay_log, call_times, db_instance, db_lock, pool, pool_lock,
           constructed, schema, table_rows, schema_log, tpc, top, tgot, tops,
           acq, fetches, api_calls, conns, pools, conn, exited, db_path >>

limiterVars == << configs, trackers, grants >>
retryVars == << attempt, last_exception, outcomes, backoffs, retry_result, result >>
gatherVars == << sites, output, mpc >>
batchVars == << queries, batch_size, batch_i, bresults, bpc, bwake, chunks, pacing,
               query_outcome >>
dbVars == << db_instance, db_lock, pool, pool_lock, constructed, schema, table_rows,
            schema_log, tpc, top, tgot, tops >>
apiVars == << api_calls >>
poolVars == << conns, pools, conn, exited, db_path >>
extVars == << batchVars, delay_log, call_times, dbVars, apiVars, poolVars >>
histVars == << acq, fetches >>
jobVars == << clock, limiterVars, retry_config, scrape_jobs, kind, site, pc, wake,
             retryVars, gatherVars, batchVars, delay_log, call_times, histVars,
             apiVars >>

\* ----------------------------------------------------------------- values
NoneValue == [kind |-> "none", rows |-> << >>, error |-> "-"]
DataFrame(rows) == [kind |-> "df", rows |-> rows, error |-> "-"]
Raised(e) == [kind |-> "raise", rows |-> << >>, error |-> e]
Unset == [kind |-> "unset", rows |-> << >>, error |-> "-"]

\* Listings as jobspy returns them for platform s.
Rows(s, n) == [i \in 1..n |-> [title |-> i, source |-> s]]

\* The module-level fallback block: two mock listings tagged "MockDB".
FallbackJobs ==
    << [title |-> 1, source |-> "MockDB"], [title |-> 2, source |-> "MockDB"] >>

\* What one invocation of jobspy's scrape_jobs may produce: a DataFrame,
\* possibly empty, or an exception.
FetchOutcomes(s) ==
    { DataFrame(Rows(s, n)) : n \in 0..MaxRows } \cup { Raised(e) : e \in Errors }

\* ------------------------------------------------------------ RateLimiter
RequestTracker ==
    [minute_requests |-> << >>, hour_requests |-> << >>, last_request_time |-> NoTime]

\* self.configs.get(platform, RateLimitConfig())
ConfigFor(platform) ==
    IF platform \in DOMAIN configs THEN configs[platform]
    ELSE RateLimitConfig(DefaultRequestsPerMinute, DefaultRequestsPerHour,
                         DefaultMinDelay)

\* GetTracker that starts the tracker of every other platform afresh.
GetTrackerFresh(platform) ==
    [p \in DOMAIN trackers \cup {platform} |->
        IF p = platform /\ p \in DOMAIN trackers THEN trackers[p] ELSE RequestTracker]

\* _get_tracker: the tracker map after the lookup.
GetTracker(platform) ==
    IF platform \in DOMAIN trackers THEN trackers
    ELSE [p \in DOMAIN trackers \cup {platform} |->
            IF p = platform THEN RequestTracker ELSE trackers[p]]

\* CleanOldRequests with the two windows exchanged: the minute list keeps an
\* hour and the hour list keeps a minute.
CleanOldRequestsSwapped(requests, window_seconds, nowRead) ==
    LET cutoff == nowRead - (MinuteWindow + HourWindow - window_seconds)
    IN SelectSeq(requests, LAMBDA req : req > cutoff)

\* _clean_old_requests; nowRead is the datetime.now() the function reads itself.
CleanOldRequests(requests, window_seconds, nowRead) ==
    LET cutoff == nowRead - window_seconds
    IN SelectSeq(requests, LAMBDA req : req > cutoff)

MinuteOk(minute_requests, config) ==
    Len(minute_requests) < config.requests_per_minute

HourOk(hour_requests, config) ==
    Len(hour_requests) < config.requests_per_hour

\* DelayOk without the elapsed-time test.
DelayOkNoCheck(last_request_time, config, now) == TRUE

DelayOk(last_request_time, config, now) ==
    IF last_request_time # NoTime
    THEN (now - last_request_time) >= config.min_delay_seconds
    ELSE TRUE

SetMax(S) == CHOOSE x \in S : \A y \in S : y <= x

\* WaitTime that takes the shortest of the wait times.
WaitTimeMin(minute_requests, hour_requests, last_request_time, config, now, minute_ok, hour_ok, delay_ok) ==
    LET wait_times ==
            (IF ~minute_ok /\ minute_requests # << >>
             THEN {minute_requests[1] + MinuteWindow - now} ELSE {})
            \cup
            (IF ~hour_ok /\ hour_requests # << >>
             THEN {hour_requests[1] + HourWindow - now} ELSE {})
            \cup
            (IF ~delay_ok /\ last_request_time # NoTime
             THEN {config.min_delay_seconds - (now - last_request_time)} ELSE {})
    IN IF wait_times # {}
       THEN CHOOSE x \in wait_times : \A y \in wait_times : x <= y
       ELSE config.min_delay_seconds

\* Lines 174-190: the wait before the next evaluation.
WaitTime(minute_requests, hour_requests, last_request_time, config, now, minute_ok, hour_ok, delay_ok) ==
    LET wait_times ==
            (IF ~minute_ok /\ minute_requests # << >>
             THEN {minute_requests[1] + MinuteWindow - now} ELSE {})
            \cup
            (IF ~hour_ok /\ hour_requests # << >>
             THEN {hour_requests[1] + HourWindow - now} ELSE {})
            \cup
            (IF ~delay_ok /\ last_request_time # NoTime
             THEN {config.min_delay_seconds - (now - last_request_time)} ELSE {})
    IN IF wait_times # {} THEN SetMax(wait_times) ELSE config.min_delay_seconds

\* SleepUntil for a sleep that is not awaited.
SleepUntilNow(t, d) == t

\* asyncio.sleep(d) started at instant t is due at t + d (at once when d <= 0).
SleepUntil(t, d) == IF d > 0 THEN t + d ELSE t


\* ----------------------------------------------------- ExponentialBackoff
RECURSIVE Pow(_, _)
Pow(b, n) == IF n = 0 THEN 1 ELSE b * Pow(b, n - 1)

Min(a, b) == IF a <= b THEN a ELSE b

\* The exponent e with 2.0 ** e = b, for a base that is a power of two.
Log2(b) == CHOOSE e \in 0..FloatMaxExp : Pow(2, e) = b

\* exponential_base ** attempt (line 228) leaves the range of a float: Python
\* raises OverflowError instead of returning a value.
PowOverflows(b, n) == n * Log2(b) >= FloatMaxExp

\* calculate_delay before the jitter is added (lines 227-230).
BaseDelay(config, n) ==
    Min(config.initial_delay * Pow(config.exponential_base, n), config.max_delay)

\* calculate_delay: every value random.uniform(0, delay * 0.5) lets it return.
CalculateDelay(config, n) ==
    LET delay == BaseDelay(config, n)
    IN IF config.jitter THEN { delay + j : j \in 0..(delay \div 2) } ELSE { delay }

\* RetryRange with one index too many.
RetryRangeOffByOne(max_retries) == 0..max_retries

\* range(self.config.max_retries)
RetryRange(max_retries) == 0..(max_retries - 1)

\* RetryStep that sleeps after every failed attempt, the last one included.
RetryStepSleepAlways(outcome, n, max_retries) ==
    IF outcome.kind # "raise" THEN "return" ELSE "sleep"

\* RetryStep that does not return on success: the loop goes on.
RetryStepNoReturn(outcome, n, max_retries) ==
    IF n < max_retries - 1 THEN "sleep" ELSE "exhausted"

\* RetryStep that takes the None of an empty result for a failed attempt.
RetryStepEmptyFails(outcome, n, max_retries) ==
    IF outcome.kind = "df" THEN "return"
    ELSE IF n < max_retries - 1 THEN "sleep" ELSE "exhausted"

\* One pass of the loop body of retry_async / retry_sync (lines 261-274), given
\* what func produced: return it, sleep then loop, or loop without sleeping.
RetryStep(outcome, n, max_retries) ==
    IF outcome.kind # "raise" THEN "return"
    ELSE IF n < max_retries - 1 THEN "sleep" ELSE "exhausted"

\* RecordException that keeps the first exception seen.
RecordExceptionFirst(last, e) == IF last = "None" THEN e ELSE last

\* last_exception = e
RecordException(last, e) == e

\* raise last_exception (line 276); raising None is a TypeError.
RaiseLast(last) == IF last = "None" THEN Raised("TypeError") ELSE Raised(last)

\* -------------------------------------------------------------- JobScraper
\* _scrape, lines 428-433: a non-empty DataFrame is returned, anything else is None.
Scrape(jobs_df) ==
    IF jobs_df.kind = "df" /\ jobs_df.rows # << >> THEN jobs_df ELSE NoneValue

\* ScrapeJobsResult without the except clause: the exception leaves the coroutine.
ScrapeJobsResultReraise(r) == r

\* ScrapeJobsResult whose except clause names one exception class only.
ScrapeJobsResultTimeoutOnly(r) ==
    IF r.kind = "raise" /\ r.error = "timeout" THEN NoneValue ELSE r

\* scrape_jobs_async, lines 435-439: what retry_async raised becomes None.
ScrapeJobsResult(r) == IF r.kind = "raise" THEN NoneValue ELSE r

Put(d, k, v) == [x \in DOMAIN d \cup {k} |-> IF x = k THEN v ELSE d[x]]

EmptyDict == [x \in {} |-> NoneValue]

\* GatherFrom that gives up at the first pipeline without listings.
GatherFromAbort(ss, results, i, out) ==
    IF \E k \in 1..Len(ss) : results[k].kind # "df" THEN EmptyDict
    ELSE [p \in { ss[k] : k \in 1..Len(ss) } |->
            results[CHOOSE k \in 1..Len(ss) : ss[k] = p /\ \A j \in 1..Len(ss) : ss[j] = p => j <= k]]

\* scrape_multiple_sites_async, lines 515-522: zip(sites, results) into a dict.
RECURSIVE GatherFrom(_, _, _, _)
GatherFrom(ss, results, i, out) ==
    IF i > Len(ss) THEN out
    ELSE IF results[i].kind = "raise" THEN GatherFrom(ss, results, i + 1, out)
    ELSE IF results[i].kind # "none"
         THEN GatherFrom(ss, results, i + 1, Put(out, ss[i], results[i]))
         ELSE GatherFrom(ss, results, i + 1, out)

GatherOutput(ss, results) == GatherFrom(ss, results, 1, EmptyDict)

\* JobSearchRequest.validate_sites (src/api/main.py): every element is allowed.
AllowedSites == {"indeed", "linkedin", "zip_recruiter", "glassdoor", "google"}

ValidateSites(v) == \A i \in 1..Len(v) : v[i] \in AllowedSites

\* ------------------------------------------------------------------ steps
\* What is recorded of a coroutine's calls of acquire: how many it made, and of
\* the latest one the instant it was entered, each wait of lines 174-193, the
\* instant recorded as its grant, the jitter drawn and the instant it returned.
NoAcquire ==
    [calls |-> 0, called |-> NoTime, waits |-> << >>, granted |-> NoTime,
     jitter |-> 0, returned |-> NoTime]

EnterAcquire(a, now) ==
    [calls |-> a.calls + 1, called |-> now, waits |-> << >>, granted |-> NoTime,
     jitter |-> 0, returned |-> NoTime]

Waiting == { t \in TaskIds : pc[t] \in {"pending", "acquire", "granted", "fetching", "backoff"} }

\* Due for a timer that fires only after its deadline has passed.
DueLate(t) == clock > wake[t]

\* A sleep that ends at wake[t] is over.
Due(t) == clock >= wake[t]

\* No coroutine is runnable: the event loop idles until the earliest timer is due.
Tick ==
    /\ Waiting # {}
    /\ \A t \in Waiting : ~Due(t)
    /\ \E t \in Waiting :
          /\ \A u \in Waiting : wake[t] <= wake[u]
          /\ clock' = wake[t]
    /\ UNCHANGED << limiterVars, retry_config, scrape_jobs, kind, site, pc, wake,
                    retryVars, gatherVars, extVars, histVars >>

\* A direct caller enters RateLimiter.acquire (lines 139-140).
CallAcquire(t) ==
    /\ pc[t] = "pending" /\ kind[t] = "caller" /\ Due(t)
    /\ trackers' = GetTracker(site[t])
    /\ pc' = [pc EXCEPT ![t] = "acquire"]
    /\ acq' = [acq EXCEPT ![t] = EnterAcquire(@, clock)]
    /\ UNCHANGED << clock, configs, grants, retry_config, scrape_jobs, kind, site,
                    wake, retryVars, gatherVars, extVars, fetches >>

\* ScrapeJobsAsync that does not await acquire: the first attempt starts at once.
ScrapeJobsAsyncNoAcquire(t) ==
    /\ pc[t] = "pending" /\ kind[t] = "pipeline" /\ Due(t)
    /\ IF scrape_jobs = "None"
       THEN /\ pc' = [pc EXCEPT ![t] = "done"]
            /\ result' = [result EXCEPT ![t] = NoneValue]
            /\ UNCHANGED << wake, fetches >>
       ELSE /\ pc' = [pc EXCEPT ![t] = "fetching"]
            /\ wake' = [wake EXCEPT ![t] = clock + FetchTicks]
            /\ fetches' = [fetches EXCEPT ![t] = Append(@, clock)]
            /\ UNCHANGED result
    /\ UNCHANGED << clock, limiterVars, retry_config, scrape_jobs, kind, site,
                    attempt, last_exception, outcomes, backoffs, retry_result,
                    gatherVars, extVars, acq >>

\* scrape_jobs_async up to the loop of acquire (lines 399-404, 139-140).
ScrapeJobsAsync(t) ==
    /\ pc[t] = "pending" /\ kind[t] = "pipeline" /\ Due(t)
    /\ IF scrape_jobs = "None"
       THEN /\ pc' = [pc EXCEPT ![t] = "done"]
            /\ result' = [result EXCEPT ![t] = NoneValue]
            /\ UNCHANGED << trackers, acq >>
       ELSE /\ trackers' = GetTracker(site[t])
            /\ pc' = [pc EXCEPT ![t] = "acquire"]
            /\ acq' = [acq EXCEPT ![t] = EnterAcquire(@, clock)]
            /\ UNCHANGED result
    /\ UNCHANGED << clock, configs, grants, retry_config, scrape_jobs, kind, site,
                    wake, attempt, last_exception, outcomes, backoffs,
                    retry_result, gatherVars, extVars, fetches >>

\* One evaluation of the loop of acquire (lines 143-161): now is read first,
\* each _clean_old_requests call reads the clock again, s1 <= s2 ticks later.
Evaluation(t, s1, s2) ==
    LET config == ConfigFor(site[t])
        tracker == trackers[site[t]]
        now == clock
        minute_requests == CleanOldRequests(tracker.minute_requests, MinuteWindow, now + s1)
        hour_requests == CleanOldRequests(tracker.hour_requests, HourWindow, now + s2)
    IN [ config |-> config, now |-> now,
         minute_requests |-> minute_requests, hour_requests |-> hour_requests,
         last_request_time |-> tracker.last_request_time,
         minute_ok |-> MinuteOk(minute_requests, config),
         hour_ok |-> HourOk(hour_requests, config),
         delay_ok |-> DelayOk(tracker.last_request_time, config, now) ]

\* Admissible for a caller that takes the end of its wait for the permission.
AdmissibleAfterWait(t, e) ==
    acq[t].waits # << >> \/ (e.minute_ok /\ e.hour_ok /\ e.delay_ok)

\* Line 163, as coroutine t evaluates it in every pass of the loop.
Admissible(t, e) == e.minute_ok /\ e.hour_ok /\ e.delay_ok

\* The time acquire sleeps after recording a grant, without the sleep.
GrantSleepNone(config, jitter) == 0

\* Lines 170-171: asyncio.sleep(config.min_delay_seconds + jitter).
GrantSleep(config, jitter) == config.min_delay_seconds + jitter

\* Lines 163-172: the request is admissible; record the grant and sleep.
AcquireGrant(t) ==
    /\ pc[t] = "acquire" /\ Due(t)
    /\ \E s1 \in 0..MaxSkew, s2 \in 0..MaxSkew, jitter \in 0..JitterMax :
          LET e == Evaluation(t, s1, s2) IN
          /\ s1 <= s2
          /\ Admissible(t, e)
          /\ acq' = [acq EXCEPT ![t].granted = e.now, ![t].jitter = jitter]
          /\ trackers' = [trackers EXCEPT ![site[t]] =
                            [minute_requests |-> Append(e.minute_requests, e.now),
                             hour_requests |-> Append(e.hour_requests, e.now),
                             last_request_time |-> e.now]]
          /\ grants' = [grants EXCEPT ![site[t]] = Append(@, e.now)]
          /\ clock' = clock + s2
          /\ wake' = [wake EXCEPT ![t] =
                        SleepUntil(clock + s2, GrantSleep(e.config, jitter))]
    /\ pc' = [pc EXCEPT ![t] = "granted"]
    /\ UNCHANGED << configs, retry_config, scrape_jobs, kind, site, retryVars, gatherVars,
                    extVars, fetches >>

\* Lines 174-193: not admissible; sleep wait_time and evaluate again.
AcquireWait(t) ==
    /\ pc[t] = "acquire" /\ Due(t)
    /\ \E s1 \in 0..MaxSkew, s2 \in 0..MaxSkew :
          LET e == Evaluation(t, s1, s2)
              wait_time == WaitTime(e.minute_requests, e.hour_requests,
                                    e.last_request_time, e.config, e.now,
                                    e.minute_ok, e.hour_ok, e.delay_ok)
          IN
          /\ s1 <= s2
          /\ ~Admissible(t, e)
          /\ trackers' = [trackers EXCEPT ![site[t]] =
                            [minute_requests |-> e.minute_requests,
                             hour_requests |-> e.hour_requests,
                             last_request_time |-> e.last_request_time]]
          /\ clock' = clock + s2
          /\ wake' = [wake EXCEPT ![t] = SleepUntil(clock + s2, wait_time)]
          /\ acq' = [acq EXCEPT ![t].waits = Append(@,
                        [now |-> e.now, minute_requests |-> e.minute_requests,
                         hour_requests |-> e.hour_requests,
                         last_request_time |-> e.last_request_time,
                         slept |-> wait_time, until |-> wake'[t]])]
    /\ UNCHANGED << configs, grants, retry_config, scrape_jobs, kind, site, pc,
                    retryVars, gatherVars, extVars, fetches >>

\* The sleep of line 171 is over and acquire returns to a direct caller.
AcquireReturn(t) ==
    /\ pc[t] = "granted" /\ kind[t] = "caller" /\ Due(t)
    /\ pc' = [pc EXCEPT ![t] = "done"]
    /\ acq' = [acq EXCEPT ![t].returned = clock]
    /\ UNCHANGED << clock, limiterVars, retry_config, scrape_jobs, kind, site, wake,
                    retryVars, gatherVars, extVars, fetches >>

\* The for loop of retry_async reaches index n with last_exception = last:
\* invoke _scrape (awaiting the executor), or leave the loop and raise (line 276),
\* which scrape_jobs_async turns into None (lines 437-439).
NextIteration(t, n, last) ==
    IF n \in RetryRange(retry_config.max_retries)
    THEN /\ wake' = [wake EXCEPT ![t] = clock + FetchTicks]
         /\ pc' = [pc EXCEPT ![t] = "fetching"]
         /\ attempt' = [attempt EXCEPT ![t] = n]
         /\ fetches' = [fetches EXCEPT ![t] = Append(@, clock)]
         /\ UNCHANGED << retry_result, result >>
    ELSE /\ pc' = [pc EXCEPT ![t] = "done"]
         /\ retry_result' = [retry_result EXCEPT ![t] = RaiseLast(last)]
         /\ result' = [result EXCEPT ![t] = ScrapeJobsResult(RaiseLast(last))]
         /\ UNCHANGED << wake, attempt, fetches >>

\* acquire returns to scrape_jobs_async, which enters retry_async (lines 404-436, 258-262).
PipelineAcquired(t) ==
    /\ pc[t] = "granted" /\ kind[t] = "pipeline" /\ Due(t)
    /\ NextIteration(t, 0, last_exception[t])
    /\ acq' = [acq EXCEPT ![t].returned = clock]
    /\ UNCHANGED << clock, limiterVars, retry_config, scrape_jobs, kind, site,
                    last_exception, outcomes, backoffs, gatherVars, extVars >>

\* The executor call finishes: _scrape returns or raises, and the loop body of
\* retry_async runs up to its next await (lines 415-433, 261-276).
FetchComplete(t) ==
    /\ pc[t] = "fetching" /\ Due(t)
    /\ \E raw \in FetchOutcomes(site[t]) :
          LET outcome == IF raw.kind = "raise" THEN raw ELSE Scrape(raw)
              step == RetryStep(outcome, attempt[t], retry_config.max_retries)
              last == IF outcome.kind = "raise"
                      THEN RecordException(last_exception[t], outcome.error)
                      ELSE last_exception[t]
          IN /\ outcomes' = [outcomes EXCEPT ![t] = Append(@, raw)]
             /\ last_exception' = [last_exception EXCEPT ![t] = last]
             /\ CASE step = "return" ->
                       /\ pc' = [pc EXCEPT ![t] = "done"]
                       /\ retry_result' = [retry_result EXCEPT ![t] = outcome]
                       /\ result' = [result EXCEPT ![t] = ScrapeJobsResult(outcome)]
                       /\ UNCHANGED << wake, attempt, backoffs, fetches >>
                  [] step = "sleep" ->
                       \E delay \in CalculateDelay(retry_config, attempt[t]) :
                          /\ pc' = [pc EXCEPT ![t] = "backoff"]
                          /\ wake' = [wake EXCEPT ![t] = SleepUntil(clock, delay)]
                          /\ backoffs' = [backoffs EXCEPT ![t] = Append(@, delay)]
                          /\ UNCHANGED << attempt, retry_result, result, fetches >>
                  [] OTHER ->
                       /\ NextIteration(t, attempt[t] + 1, last)
                       /\ UNCHANGED backoffs
    /\ UNCHANGED << clock, limiterVars, retry_config, scrape_jobs, kind, site, gatherVars,
                    extVars, acq >>

\* The sleep of line 272 is over; the loop goes on with the next index.
BackoffWake(t) ==
    /\ pc[t] = "backoff" /\ Due(t)
    /\ NextIteration(t, attempt[t] + 1, last_exception[t])
    /\ UNCHANGED << clock, limiterVars, retry_config, scrape_jobs, kind, site,
                    last_exception, outcomes, backoffs, gatherVars, extVars, acq >>

\* asyncio.gather(*tasks, return_exceptions=...) (lines 513, 586): the await
\* raises the exception of a task only when return_exceptions is false.
GatherRaises(rs, return_exceptions) ==
    ~return_exceptions /\ \E i \in 1..Len(rs) : rs[i].kind = "raise"

\* GatherDone for a wait that ends with the first coroutine that finishes.
GatherDoneFirst(n) == n = 0 \/ \E t \in 1..n : pc[t] = "done"

\* GatherDone for a gather that is not awaited.
GatherDoneNoWait(n) == TRUE

\* GatherDone for a gather that waits for every coroutine slot, used or not.
GatherDoneAllSlots(n) == \A t \in TaskIds : pc[t] = "done"

\* await asyncio.gather(*tasks) over the coroutines 1..n resumes its caller
\* when every one of them has finished.
GatherDone(n) == \A t \in 1..n : pc[t] = "done"

\* asyncio.gather has every result; build and return the dict (lines 513-522).
GatherReturn ==
    /\ mpc = "gathering"
    /\ GatherDone(Len(sites))
    /\ LET rs == [i \in 1..Len(sites) |-> result[i]] IN
       IF GatherRaises(rs, TRUE)
       THEN mpc' = "raised" /\ UNCHANGED output
       ELSE /\ output' = GatherOutput(sites, rs)
            /\ mpc' = "returned"
    /\ UNCHANGED << clock, limiterVars, retry_config, scrape_jobs, kind, site, pc,
                    wake, retryVars, sites, extVars, histVars >>

\* ------------------------------------------------------------- search_jobs
\* RateLimiter.__init__ (lines 86-113), for the sites of ConfiguredSites.
DefaultConfigs ==
    [p \in ConfiguredSites |->
        IF p = "indeed" THEN RateLimitConfig(10, 100, 4) ELSE RateLimitConfig(5, 50, 6)]

\* RetryConfig()
DefaultRetryConfig ==
    [max_retries |-> DefaultMaxRetries, initial_delay |-> InitialDelay,
     max_delay |-> MaxDelay, exponential_base |-> ExponentialBase, jitter |-> TRUE]

\* The search_jobs endpoint receives a request whose sites passed validate_sites
\* (api/main.py lines 197-201): JobScraper() builds a RateLimiter and an
\* ExponentialBackoff of its own (job_scraper.py lines 371-372, 86-113), and
\* scrape_multiple_sites_async creates one coroutine per site (lines 501-513).
\* The client sends a request when the one before has been answered.
SearchJobs(ss) ==
    /\ mpc \in {"none", "returned"}
    /\ api_calls < MaxRequests
    /\ ValidateSites(ss)
    /\ api_calls' = api_calls + 1
    /\ trackers' = [p \in {} |-> RequestTracker]
    /\ configs' = DefaultConfigs
    /\ retry_config' = DefaultRetryConfig
    /\ sites' = ss
    /\ site' = [t \in TaskIds |-> IF t <= Len(ss) THEN ss[t] ELSE site[t]]
    /\ pc' = [t \in TaskIds |-> IF t <= Len(ss) THEN "pending" ELSE "unused"]
    /\ wake' = [t \in TaskIds |-> clock]
    /\ attempt' = [t \in TaskIds |-> 0]
    /\ last_exception' = [t \in TaskIds |-> "None"]
    /\ outcomes' = [t \in TaskIds |-> << >>]
    /\ backoffs' = [t \in TaskIds |-> << >>]
    /\ retry_result' = [t \in TaskIds |-> Unset]
    /\ result' = [t \in TaskIds |-> Unset]
    /\ acq' = [t \in TaskIds |-> NoAcquire]
    /\ fetches' = [t \in TaskIds |-> << >>]
    /\ output' = EmptyDict
    /\ mpc' = "gathering"
    /\ UNCHANGED << clock, grants, scrape_jobs, kind, batchVars, delay_log,
                    call_times, dbVars, poolVars >>

\* ------------------------------------------------------ batch_scrape_async
\* queries[i:i + batch_size], i counted from 0 as in the source.
Batch(qs, i, k) == SubSeq(qs, i + 1, Min(i + k, Len(qs)))

\* range(0, len(queries), batch_size) has an index after i.
RangeContinues(i, k, n) == i + k < n

\* PacingNeeded that also sleeps after the last batch.
PacingNeededAlways(i, k, n) == TRUE

\* Line 596.
PacingNeeded(i, k, n) == i + k < n

\* BatchResults that leaves failed queries out, as scrape_multiple_sites_async does.
BatchResultsDropFailed(rs) == SelectSeq(rs, LAMBDA r : r.kind = "df")

\* Lines 588-593: an exception becomes None, every other result is kept.
BatchResults(rs) ==
    [j \in 1..Len(rs) |-> IF rs[j].kind = "raise" THEN NoneValue ELSE rs[j]]

\* Lines 582-586 for the batch at index i, entered at instant now: one
\* scrape_jobs_async coroutine per query of the batch, then await gather.
StartBatch(i, now) ==
    LET batch == Batch(queries, i, batch_size) IN
    /\ batch_i' = i
    /\ chunks' = chunks + 1
    /\ site' = [t \in TaskIds |-> IF t <= Len(batch) THEN batch[t] ELSE site[t]]
    /\ pc' = [t \in TaskIds |-> IF t <= Len(batch) THEN "pending" ELSE "unused"]
    /\ wake' = [t \in TaskIds |-> now]
    /\ attempt' = [t \in TaskIds |-> 0]
    /\ last_exception' = [t \in TaskIds |-> "None"]
    /\ outcomes' = [t \in TaskIds |-> << >>]
    /\ backoffs' = [t \in TaskIds |-> << >>]
    /\ retry_result' = [t \in TaskIds |-> Unset]
    /\ result' = [t \in TaskIds |-> Unset]
    /\ acq' = [t \in TaskIds |-> NoAcquire]
    /\ fetches' = [t \in TaskIds |-> << >>]
    /\ bpc' = "gathering"

\* batch_scrape_async up to its first await (lines 579-586).
BatchScrapeAsync ==
    /\ bpc = "pending"
    /\ IF Len(queries) = 0
       THEN /\ bpc' = "returned"
            /\ UNCHANGED << site, pc, wake, retryVars, batch_i, chunks, histVars >>
       ELSE StartBatch(0, clock)
    /\ UNCHANGED << clock, limiterVars, retry_config, scrape_jobs, kind, gatherVars,
                    queries, batch_size, bresults, bwake, pacing, query_outcome,
                    delay_log, call_times, dbVars, apiVars,
                    poolVars >>

\* gather has every result of the batch: append them, then sleep before the
\* next batch, go on with it, or return (lines 586-599).
BatchGathered ==
    /\ bpc = "gathering"
    /\ LET batch == Batch(queries, batch_i, batch_size)
           rs == [t \in 1..Len(batch) |-> result[t]]
           idle == UNCHANGED << site, pc, wake, retryVars, batch_i, chunks, histVars >>
       IN /\ GatherDone(Len(batch))
          /\ IF GatherRaises(rs, TRUE)
             THEN /\ bpc' = "raised"
                  /\ idle
                  /\ UNCHANGED << bresults, query_outcome, bwake, pacing >>
             ELSE /\ bresults' = bresults \o BatchResults(rs)
                  /\ query_outcome' =
                        [q \in DOMAIN query_outcome |->
                            IF q - batch_i \in 1..Len(batch)
                            THEN result[q - batch_i] ELSE query_outcome[q]]
                  /\ IF PacingNeeded(batch_i, batch_size, Len(queries))
                     THEN /\ bpc' = "pacing"
                          /\ bwake' = clock + BatchDelay
                          /\ pacing' = Append(pacing, chunks)
                          /\ idle
                     ELSE /\ IF RangeContinues(batch_i, batch_size, Len(queries))
                             THEN StartBatch(batch_i + batch_size, clock)
                             ELSE bpc' = "returned" /\ idle
                          /\ UNCHANGED << bwake, pacing >>
    /\ UNCHANGED << clock, limiterVars, retry_config, scrape_jobs, kind, gatherVars,
                    queries, batch_size, delay_log, call_times, dbVars, apiVars,
                    poolVars >>

\* The sleep of line 597 is over (nothing else runs meanwhile): the loop takes
\* its next index, or ends and results is returned.
BatchResume ==
    /\ bpc = "pacing"
    /\ clock' = IF clock >= bwake THEN clock ELSE bwake
    /\ IF RangeContinues(batch_i, batch_size, Len(queries))
       THEN StartBatch(batch_i + batch_size, clock')
       ELSE /\ bpc' = "returned"
            /\ UNCHANGED << site, pc, wake, retryVars, batch_i, chunks, histVars >>
    /\ UNCHANGED << limiterVars, retry_config, scrape_jobs, kind, gatherVars,
                    queries, batch_size, bresults, bwake, pacing, query_outcome,
                    delay_log, call_times, dbVars, apiVars,
                    poolVars >>

\* ------------------------------------------------- calculate_delay, applied
\* RetryConfig values for calculate_delay alone: max_delay is at least
\* initial_delay and exponential_base is above 1.
BackoffConfigs ==
    { r \in [max_retries : {MaxRetries}, initial_delay : {1, InitialDelay, 3},
             max_delay : {3, 8, MaxDelay}, exponential_base : {ExponentialBase, 4},
             jitter : BOOLEAN] : r.jitter => r.max_delay <= 8 }

\* The attempt numbers calculate_delay is applied to, in this order: the first
\* ones, then the first one whose power of 2.0 is no float.
AttemptNumbers ==
    [i \in 1..(MaxAttempt + 2) |-> IF i <= MaxAttempt + 1 THEN i - 1 ELSE FloatMaxExp]

\* calculate_delay(n) for the next attempt number n of AttemptNumbers
\* (lines 227-236).
CalculateDelayCall ==
    /\ Len(delay_log) < Len(AttemptNumbers)
    /\ LET n == AttemptNumbers[Len(delay_log) + 1] IN
       IF PowOverflows(retry_config.exponential_base, n)
       THEN delay_log' = Append(delay_log,
               [attempt |-> n, raised |-> "OverflowError", base |-> 0, delay |-> 0])
       ELSE \E delay \in CalculateDelay(retry_config, n) :
               delay_log' = Append(delay_log,
                   [attempt |-> n, raised |-> "None",
                    base |-> BaseDelay(retry_config, n), delay |-> delay])
    /\ UNCHANGED << clock, limiterVars, retry_config, scrape_jobs, kind, site, pc,
                    wake, retryVars, gatherVars, batchVars, call_times, dbVars, apiVars, poolVars,
                    histVars >>

\* ------------------------------------------- acquire, called one after another
\* A caller that awaits acquire MaxCalls times in a row enters acquire.
SequenceCall(t) ==
    /\ pc[t] = "pending" /\ kind[t] = "sequence" /\ Due(t)
    /\ trackers' = GetTracker(site[t])
    /\ call_times' = [call_times EXCEPT ![t] = Append(@, clock)]
    /\ pc' = [pc EXCEPT ![t] = "acquire"]
    /\ acq' = [acq EXCEPT ![t] = EnterAcquire(@, clock)]
    /\ UNCHANGED << clock, configs, grants, retry_config, scrape_jobs, kind, site,
                    wake, retryVars, gatherVars, batchVars, delay_log, dbVars, apiVars, poolVars,
                    fetches >>

\* acquire returns to that caller, which calls again at once or is finished.
SequenceReturn(t) ==
    /\ pc[t] = "granted" /\ kind[t] = "sequence" /\ Due(t)
    /\ pc' = [pc EXCEPT ![t] = IF Len(call_times[t]) < MaxCalls THEN "pending" ELSE "done"]
    /\ acq' = [acq EXCEPT ![t].returned = clock]
    /\ UNCHANGED << clock, limiterVars, retry_config, scrape_jobs, kind, site, wake,
                    retryVars, gatherVars, extVars, fetches >>

\* ---------------------------------------------------------------- database
\* src/src/models/database.py.  Threads run its functions; a step is what one
\* thread does between two points where another thread can run and matter:
\* a read of a shared name, the acquisition of a lock, a locked block.
Threads == 1..MaxThreads

Tables == {"jobs", "resumes", "applications", "job_skills"}

\* The statements of initialize_schema in their order (lines 193-290).
Statements ==
    << [create |-> "table", name |-> "jobs", on |-> "-"],
       [create |-> "table", name |-> "resumes", on |-> "-"],
       [create |-> "table", name |-> "applications", on |-> "-"],
       [create |-> "table", name |-> "job_skills", on |-> "-"],
       [create |-> "index", name |-> "idx_jobs_company", on |-> "jobs"],
       [create |-> "index", name |-> "idx_jobs_location", on |-> "jobs"],
       [create |-> "index", name |-> "idx_jobs_date_posted", on |-> "jobs"],
       [create |-> "index", name |-> "idx_jobs_title", on |-> "jobs"],
       [create |-> "index", name |-> "idx_applications_status", on |-> "applications"],
       [create |-> "index", name |-> "idx_applications_job_id", on |-> "applications"],
       [create |-> "index", name |-> "idx_job_skills_job_id", on |-> "job_skills"],
       [create |-> "index", name |-> "idx_job_skills_skill", on |-> "job_skills"] >>

\* The objects the first n statements create.
Created(n) == { Statements[i].name : i \in 1..n }

\* Database files: the default location (lines 137-146) and another one.
DefaultPath == "magnus_resume_bot.db"
Paths == {DefaultPath, "other.db"}

\* ConnectionPool(self.db_path): pool_size takes its default.
NoPool == [id |-> 0, pool_size |-> 0]
NotCalled == [id |-> -1, pool_size |-> 0]
ConnectionPool(id) == [id |-> id, pool_size |-> PoolSize]

\* The database file as one value.
DbFile == [schema |-> schema, rows |-> table_rows]

\* ExecuteCreate for CREATE without IF NOT EXISTS: an existing name is an error.
ExecuteCreateStrict(db, stmt) ==
    IF db.error # "None" THEN db
    ELSE IF stmt.name \in db.schema \/ (stmt.create = "index" /\ stmt.on \notin db.schema)
         THEN [db EXCEPT !.error = "OperationalError"]
         ELSE [db EXCEPT !.schema = @ \cup {stmt.name}]

\* cursor.execute of one CREATE ... IF NOT EXISTS statement; after an exception
\* the statements that follow are not executed.
ExecuteCreate(db, stmt) ==
    IF db.error # "None" THEN db
    ELSE IF stmt.name \in db.schema THEN db
    ELSE IF stmt.create = "index" /\ stmt.on \notin db.schema
         THEN [db EXCEPT !.error = "OperationalError"]
         ELSE [db EXCEPT !.schema = @ \cup {stmt.name}]

RECURSIVE ExecuteAll(_, _)
ExecuteAll(db, i) ==
    IF i > Len(Statements) THEN db
    ELSE ExecuteAll(ExecuteCreate(db, Statements[i]), i + 1)

\* The body of initialize_schema on a connection (lines 190-292).
InitializeSchemaBody(file) ==
    ExecuteAll([schema |-> file.schema, rows |-> file.rows, error |-> "None"], 1)

\* _create_connection (lines 57-72) on the pool with identity p; temporary
\* tells that get_connection created it on exhaustion (line 95).
CreateConnection(path, p, temporary) ==
    [database_path |-> path, pool |-> p, temporary |-> temporary, open |-> TRUE,
     in_transaction |-> FALSE]

\* ConnectionPool.__init__ and _initialize_pool (lines 37-47): pool_size new
\* connections, all put into the queue; n connections existed before.
InitializePool(path, p, size) == [i \in 1..size |-> CreateConnection(path, p, FALSE)]

NewPool(path, size, n) ==
    [database_path |-> path, pool_size |-> size, queue |-> [i \in 1..size |-> n + i]]

\* Line 169.
PoolMissing(p) == p = NoPool

\* PoolStillMissing without the test under the lock.
PoolStillMissingUnchecked(p) == TRUE

\* Line 171.
PoolStillMissing(p) == p = NoPool

\* get_database, line 386: the unlocked test of _db_instance.
GetDatabase(t) ==
    /\ tpc[t] \in {"start", "idle"}
    /\ tpc[t] = "idle" => tops[t] < MaxOps
    /\ tops' = [tops EXCEPT ![t] = IF tpc[t] = "idle" THEN @ + 1 ELSE @]
    /\ top' = [top EXCEPT ![t] = "get_database"]
    /\ tpc' = [tpc EXCEPT ![t] = IF db_instance = "None" THEN "gd_lock" ELSE "idle"]
    /\ UNCHANGED << db_instance, db_lock, pool, pool_lock, constructed, schema,
                    table_rows, schema_log, tgot >>
    /\ UNCHANGED << jobVars, poolVars >>

\* Line 387: with _db_lock.
GetDatabaseLock(t) ==
    /\ tpc[t] = "gd_lock" /\ db_lock = 0
    /\ db_lock' = t
    /\ tpc' = [tpc EXCEPT ![t] = "gd_locked"]
    /\ UNCHANGED << db_instance, pool, pool_lock, constructed, schema, table_rows,
                    schema_log, top, tgot, tops >>
    /\ UNCHANGED << jobVars, poolVars >>

\* Lines 388-390: the test under the lock; Database(db_path) is bound to
\* _db_instance and initialize_schema is entered, which asks for the pool.
GetDatabaseLocked(t) ==
    /\ tpc[t] = "gd_locked"
    /\ IF db_instance = "None"
       THEN /\ db_instance' = "Database"
            /\ tpc' = [tpc EXCEPT ![t] = "pool_check"]
            /\ UNCHANGED db_lock
       ELSE /\ db_lock' = 0
            /\ tpc' = [tpc EXCEPT ![t] = "idle"]
            /\ UNCHANGED db_instance
    /\ UNCHANGED << pool, pool_lock, constructed, schema, table_rows, schema_log,
                    top, tgot, tops >>
    /\ UNCHANGED << jobVars, poolVars >>

\* A thread that holds a Database calls one of its methods.
CallMethod(t, method) ==
    /\ tpc[t] = "idle" /\ tops[t] < MaxOps
    /\ tops' = [tops EXCEPT ![t] = @ + 1]
    /\ top' = [top EXCEPT ![t] = method]
    /\ tpc' = [tpc EXCEPT ![t] = IF method = "close" THEN "close_check" ELSE "pool_check"]
    /\ UNCHANGED << db_instance, db_lock, pool, pool_lock, constructed, schema,
                    table_rows, schema_log, tgot >>
    /\ UNCHANGED << jobVars, poolVars >>

\* get_pool, line 169: the unlocked test of Database._pool.
GetPoolCheck(t) ==
    /\ tpc[t] = "pool_check"
    /\ tpc' = [tpc EXCEPT ![t] = IF PoolMissing(pool) THEN "pool_lock" ELSE "pool_return"]
    /\ UNCHANGED << db_instance, db_lock, pool, pool_lock, constructed, schema,
                    table_rows, schema_log, top, tgot, tops >>
    /\ UNCHANGED << jobVars, poolVars >>

\* Line 170: with Database._lock.
GetPoolLock(t) ==
    /\ tpc[t] = "pool_lock" /\ pool_lock = 0
    /\ pool_lock' = t
    /\ tpc' = [tpc EXCEPT ![t] = "pool_locked"]
    /\ UNCHANGED << db_instance, db_lock, pool, constructed, schema, table_rows,
                    schema_log, top, tgot, tops >>
    /\ UNCHANGED << jobVars, poolVars >>

\* Lines 171-172: the test under the lock and the construction; the lock is
\* released on leaving the block.
GetPoolLocked(t) ==
    /\ tpc[t] = "pool_locked"
    /\ IF PoolStillMissing(pool)
       THEN /\ constructed' = constructed + 1
            /\ pool' = ConnectionPool(constructed + 1)
            /\ pools' = Append(pools, NewPool(db_path[t], PoolSize, Len(conns)))
            /\ conns' = conns \o InitializePool(db_path[t], constructed + 1, PoolSize)
       ELSE UNCHANGED << constructed, pool, pools, conns >>
    /\ pool_lock' = 0
    /\ tpc' = [tpc EXCEPT ![t] = "pool_return"]
    /\ UNCHANGED << db_instance, db_lock, schema, table_rows, schema_log, top, tgot, tops >>
    /\ UNCHANGED << jobVars, conn, exited, db_path >>

\* Line 173: return Database._pool, to the caller or to get_connection.
GetPoolReturn(t) ==
    /\ tpc[t] = "pool_return"
    /\ tgot' = [tgot EXCEPT ![t] = pool]
    /\ tpc' = [tpc EXCEPT ![t] = IF top[t] = "get_pool" THEN "idle" ELSE "connected"]
    /\ UNCHANGED << db_instance, db_lock, pool, pool_lock, constructed, schema,
                    table_rows, schema_log, top, tops >>
    /\ UNCHANGED << jobVars, poolVars >>

\* initialize_schema inside its connection (lines 189-293), called by a thread
\* or by get_database, which then leaves its locked block (lines 390-392).
InitializeSchema(t) ==
    /\ tpc[t] = "connected" /\ top[t] \in {"initialize_schema", "get_database"}
    /\ LET r == InitializeSchemaBody(DbFile) IN
       /\ schema' = r.schema
       /\ schema_log' = Append(schema_log,
             [before |-> DbFile, after |-> [schema |-> r.schema, rows |-> r.rows],
              error |-> r.error])
    /\ db_lock' = IF top[t] = "get_database" THEN 0 ELSE db_lock
    /\ tpc' = [tpc EXCEPT ![t] = "idle"]
    /\ UNCHANGED << db_instance, pool, pool_lock, constructed, table_rows, top, tgot, tops >>
    /\ UNCHANGED << jobVars, poolVars >>

\* execute_mutation inside its connection (lines 335-339): an INSERT into jobs.
ExecuteMutation(t) ==
    /\ tpc[t] = "connected" /\ top[t] = "execute_mutation"
    /\ table_rows' = IF "jobs" \in schema /\ table_rows["jobs"] < MaxDbRows
                     THEN [table_rows EXCEPT !["jobs"] = @ + 1] ELSE table_rows
    /\ tpc' = [tpc EXCEPT ![t] = "idle"]
    /\ UNCHANGED << db_instance, db_lock, pool, pool_lock, constructed, schema,
                    schema_log, top, tgot, tops >>
    /\ UNCHANGED << jobVars, poolVars >>

\* ------------------------------------------- ConnectionPool.get_connection
\* A thread that holds a ConnectionPool enters `with pool.get_connection()`.
EnterContext(t) ==
    /\ tpc[t] = "idle" /\ tops[t] < MaxOps
    /\ tops' = [tops EXCEPT ![t] = @ + 1]
    /\ top' = [top EXCEPT ![t] = "get_connection"]
    /\ tpc' = [tpc EXCEPT ![t] = "connected"]
    /\ UNCHANGED << db_instance, db_lock, pool, pool_lock, constructed, schema,
                    table_rows, schema_log, tgot >>
    /\ UNCHANGED << jobVars, poolVars >>

\* Line 90: self._pool.get(timeout=10.0) finds a connection in the queue; the
\* generator yields it and the body of the with statement begins (line 91).
PoolGet(t) ==
    /\ tpc[t] = "connected" /\ top[t] = "get_connection"
    /\ tgot[t] # NoPool
    /\ LET p == tgot[t].id IN
       /\ pools[p].queue # << >>
       /\ conn' = [conn EXCEPT ![t] = Head(pools[p].queue)]
       /\ pools' = [pools EXCEPT ![p].queue = Tail(@)]
    /\ tpc' = [tpc EXCEPT ![t] = "body"]
    /\ UNCHANGED << db_instance, db_lock, pool, pool_lock, constructed, schema,
                    table_rows, schema_log, top, tgot, tops >>
    /\ UNCHANGED << jobVars, conns, exited, db_path >>

\* What the body of a with statement can raise: nothing, an exception that is
\* not queue.Empty, or queue.Empty.
BodyErrors == {"None", "Error", "Empty"}

NoExit ==
    [conn |-> 0, temporary |-> FALSE, raised |-> "None", rolled_back |-> FALSE,
     in_transaction |-> FALSE, propagated |-> "None", returned |-> "none"]

\* Database.get_connection, line 184, when get_pool returned None (line 173 read
\* Database._pool after a close had cleared it): AttributeError.
NoPoolError(t) ==
    /\ tpc[t] = "connected" /\ top[t] = "get_connection"
    /\ tgot[t] = NoPool
    /\ exited' = [exited EXCEPT ![t] = [NoExit EXCEPT !.propagated = "AttributeError"]]
    /\ tpc' = [tpc EXCEPT ![t] = "idle"]
    /\ UNCHANGED << db_instance, db_lock, pool, pool_lock, constructed, schema,
                    table_rows, schema_log, top, tgot, tops >>
    /\ UNCHANGED << jobVars, conns, pools, conn, db_path >>

\* PoolGetTimesOut for a get without timeout: it blocks until a put.
PoolGetBlocks(queue) == FALSE

\* Queue.get(timeout=10.0) raises Empty: the queue is still empty when the
\* ten seconds are over.
PoolGetTimesOut(queue) == queue = << >>

\* Lines 92-96: the wait of line 90 timed out; a temporary connection is created
\* and yielded.
PoolTimeout(t) ==
    /\ tpc[t] = "connected" /\ top[t] = "get_connection"
    /\ tgot[t] # NoPool
    /\ LET p == tgot[t].id IN
       /\ PoolGetTimesOut(pools[p].queue)
       /\ conns' = Append(conns, CreateConnection(pools[p].database_path, p, TRUE))
       /\ conn' = [conn EXCEPT ![t] = Len(conns) + 1]
    /\ tpc' = [tpc EXCEPT ![t] = "body"]
    /\ UNCHANGED << db_instance, db_lock, pool, pool_lock, constructed, schema,
                    table_rows, schema_log, top, tgot, tops >>
    /\ UNCHANGED << jobVars, pools, exited, db_path >>

\* conn.rollback() (line 100).
Rollback(cs, c) == [cs EXCEPT ![c].in_transaction = FALSE]

\* conn.close() (lines 109, 116): what was not committed is discarded.
Close(cs, c) == [cs EXCEPT ![c].open = FALSE, ![c].in_transaction = FALSE]

\* put_nowait raises Full (lines 106-107).
PoolFull(p) == Len(pools[p].queue) >= pools[p].pool_size

\* The finally clause (lines 102-109) for connection c of pool p, cs being the
\* connections as the body and the handlers left them.
Finally(p, c, cs) ==
    IF PoolFull(p)
    THEN /\ conns' = Close(cs, c)
         /\ UNCHANGED pools
    ELSE /\ conns' = cs
         /\ pools' = [pools EXCEPT ![p].queue = Append(@, c)]

\* The body of the with statement ends, raising `raised`; dirty tells whether
\* it leaves work that is not committed.  The generator is resumed at its yield
\* (lines 91-109).  An Empty thrown in at line 91 is caught by line 92: a
\* second connection is created and yielded, contextlib raises RuntimeError in
\* the caller and the generator stays suspended at line 96.  Any other
\* exception thrown in at line 91 is rolled back and raised again (lines
\* 97-101).  At line 96 the generator is inside the handler of line 92, where
\* no handler of the same try statement applies.
BodyEnd(t, raised, dirty) ==
    /\ tpc[t] = "body"
    /\ LET p == tgot[t].id
           c == conn[t]
           temporary == conns[c].temporary
           used == [conns EXCEPT ![c].in_transaction = dirty]
       IN IF raised = "Empty" /\ ~temporary
          THEN /\ conns' = Append(used, CreateConnection(pools[p].database_path, p, TRUE))
               /\ conn' = [conn EXCEPT ![t] = Len(conns) + 1]
               /\ tpc' = [tpc EXCEPT ![t] = "suspended"]
               /\ exited' = [exited EXCEPT ![t] =
                     [conn |-> c, temporary |-> temporary, raised |-> raised,
                      rolled_back |-> FALSE, in_transaction |-> dirty,
                      propagated |-> "RuntimeError", returned |-> "none"]]
               /\ UNCHANGED pools
          ELSE LET handled == raised # "None" /\ ~temporary
                   cs == IF handled THEN Rollback(used, c) ELSE used
               IN /\ Finally(p, c, cs)
                  /\ conn' = [conn EXCEPT ![t] = 0]
                  /\ tpc' = [tpc EXCEPT ![t] = "idle"]
                  /\ exited' = [exited EXCEPT ![t] =
                        [conn |-> c, temporary |-> temporary, raised |-> raised,
                         rolled_back |-> handled,
                         in_transaction |-> conns'[c].in_transaction,
                         propagated |-> raised,
                         returned |-> IF PoolFull(p) THEN "closed" ELSE "pool"]]
    /\ UNCHANGED << db_instance, db_lock, pool, pool_lock, constructed, schema,
                    table_rows, schema_log, top, tgot, tops >>
    /\ UNCHANGED << jobVars, db_path >>

\* The suspended generator is closed, by contextlib or when it is collected:
\* GeneratorExit is raised at line 96 and the finally clause runs.
GeneratorClose(t) ==
    /\ tpc[t] = "suspended"
    /\ Finally(tgot[t].id, conn[t], conns)
    /\ conn' = [conn EXCEPT ![t] = 0]
    /\ tpc' = [tpc EXCEPT ![t] = "idle"]
    /\ UNCHANGED << db_instance, db_lock, pool, pool_lock, constructed, schema,
                    table_rows, schema_log, top, tgot, tops >>
    /\ UNCHANGED << jobVars, exited, db_path >>

\* ----------------------------------------------------------- Database.close
\* Line 364: if Database._pool.
CloseCheck(t) ==
    /\ tpc[t] = "close_check"
    /\ tpc' = [tpc EXCEPT ![t] = IF pool = NoPool THEN "idle" ELSE "close_read"]
    /\ UNCHANGED << db_instance, db_lock, pool, pool_lock, constructed, schema,
                    table_rows, schema_log, top, tgot, tops >>
    /\ UNCHANGED << jobVars, poolVars >>

\* Line 365: Database._pool is read again and close_all is called on it; on
\* None the call raises AttributeError and close is left.
CloseRead(t) ==
    /\ tpc[t] = "close_read"
    /\ IF pool = NoPool
       THEN /\ tpc' = [tpc EXCEPT ![t] = "idle"]
            /\ UNCHANGED tgot
       ELSE /\ tpc' = [tpc EXCEPT ![t] = "closing"]
            /\ tgot' = [tgot EXCEPT ![t] = pool]
    /\ UNCHANGED << db_instance, db_lock, pool, pool_lock, constructed, schema,
                    table_rows, schema_log, top, tops >>
    /\ UNCHANGED << jobVars, poolVars >>

\* close_all, one pass of its loop (lines 113-118): the connection at the head
\* of the queue is taken out and closed, or the queue is empty and the loop ends.
CloseAll(t) ==
    /\ tpc[t] = "closing"
    /\ LET p == tgot[t].id IN
       IF pools[p].queue = << >>
       THEN /\ tpc' = [tpc EXCEPT ![t] = "close_clear"]
            /\ UNCHANGED << pools, conns >>
       ELSE /\ pools' = [pools EXCEPT ![p].queue = Tail(@)]
            /\ conns' = Close(conns, Head(pools[p].queue))
            /\ UNCHANGED tpc
    /\ UNCHANGED << db_instance, db_lock, pool, pool_lock, constructed, schema,
                    table_rows, schema_log, top, tgot, tops >>
    /\ UNCHANGED << jobVars, conn, exited, db_path >>

\* Line 366: Database._pool = None.
CloseClear(t) ==
    /\ tpc[t] = "close_clear"
    /\ pool' = NoPool
    /\ tpc' = [tpc EXCEPT ![t] = "idle"]
    /\ UNCHANGED << db_instance, db_lock, pool_lock, constructed, schema,
                    table_rows, schema_log, top, tgot, tops >>
    /\ UNCHANGED << jobVars, poolVars >>

\* ----------------------------------------------------------- specifications
RECURSIVE SeqsUpTo(_, _)
SeqsUpTo(S, n) ==
    IF n = 0 THEN { << >> }
    ELSE LET shorter == SeqsUpTo(S, n - 1)
         IN shorter \cup { Append(q, x) : q \in { r \in shorter : Len(r) = n - 1 }, x \in S }

\* The parts of the state a scenario does not use.
BatchUnused ==
    /\ queries = << >> /\ batch_size = 1 /\ batch_i = 0 /\ bresults = << >>
    /\ bpc = "none" /\ bwake = 0 /\ chunks = 0 /\ pacing = << >>
    /\ query_outcome = << >>

PoolsUnused ==
    /\ conns = << >> /\ pools = << >>
    /\ exited = [t \in Threads |-> NoExit]
    /\ conn = [t \in Threads |-> 0]
    /\ db_path = [t \in Threads |-> DefaultPath]

DatabaseUnused ==
    /\ db_instance = "None" /\ db_lock = 0 /\ pool = NoPool /\ pool_lock = 0
    /\ constructed = 0 /\ schema = {} /\ table_rows = [x \in Tables |-> 0]
    /\ schema_log = << >>
    /\ tpc = [t \in Threads |-> "unused"] /\ top = [t \in Threads |-> "none"]
    /\ tgot = [t \in Threads |-> NotCalled] /\ tops = [t \in Threads |-> 0]
    /\ PoolsUnused

ApiUnused == api_calls = 0

OthersUnused ==
    /\ BatchUnused /\ DatabaseUnused /\ ApiUnused
    /\ delay_log = << >>
    /\ call_times = [t \in TaskIds |-> << >>]

TaskInit ==
    /\ clock = 0
    /\ attempt = [t \in TaskIds |-> 0]
    /\ last_exception = [t \in TaskIds |-> "None"]
    /\ outcomes = [t \in TaskIds |-> << >>]
    /\ backoffs = [t \in TaskIds |-> << >>]
    /\ retry_result = [t \in TaskIds |-> Unset]
    /\ result = [t \in TaskIds |-> Unset]
    /\ output = EmptyDict
    /\ acq = [t \in TaskIds |-> NoAcquire]
    /\ fetches = [t \in TaskIds |-> << >>]

\* One call of scrape_multiple_sites_async on a fresh JobScraper: one
\* scrape_jobs_async coroutine per element of sites, all created at once.
Init ==
    /\ TaskInit
    /\ trackers = [p \in {} |-> RequestTracker]
    /\ grants = [p \in Platforms |-> << >>]
    /\ \E c \in Policies : c.requests_per_hour > 1 /\ configs = [p \in ConfiguredSites |-> c]
    /\ retry_config \in { r \in RetryConfigs : r.max_delay = MaxDelay /\ r.jitter }
    /\ scrape_jobs \in {"jobspy", "None"}
    /\ sites \in SeqsUpTo({"indeed", "other"}, MaxTasks)
    /\ kind = [t \in TaskIds |-> "pipeline"]
    /\ site = [t \in TaskIds |-> IF t <= Len(sites) THEN sites[t] ELSE "indeed"]
    /\ pc = [t \in TaskIds |-> IF t <= Len(sites) THEN "pending" ELSE "unused"]
    /\ wake = [t \in TaskIds |-> 0]
    /\ mpc = "gathering"
    /\ OthersUnused

Next ==
    \/ Tick
    \/ \E t \in TaskIds : ScrapeJobsAsync(t)
    \/ \E t \in TaskIds : AcquireGrant(t)
    \/ \E t \in TaskIds : AcquireWait(t)
    \/ \E t \in TaskIds : PipelineAcquired(t)
    \/ \E t \in TaskIds : FetchComplete(t)
    \/ \E t \in TaskIds : BackoffWake(t)
    \/ GatherReturn

Spec == Init /\ [][Next]_vars

\* The event loop runs every coroutine that is ready, timers fire, and every
\* call of the fetcher comes back.
PipelineFairness ==
    /\ WF_vars(Tick)
    /\ WF_vars(GatherReturn)
    /\ \A t \in TaskIds :
          /\ WF_vars(ScrapeJobsAsync(t))
          /\ WF_vars(AcquireGrant(t) \/ AcquireWait(t))
          /\ WF_vars(PipelineAcquired(t))
          /\ WF_vars(FetchComplete(t))
          /\ WF_vars(BackoffWake(t))

SpecFair == Init /\ [][Next]_vars /\ PipelineFairness

\* Instants at which direct callers of acquire arrive.
StartTimes == {0, MinuteWindow - 1, MinuteWindow, HourWindow - 1}

\* One call of scrape_jobs_async, on a JobScraper whose RateLimiter is fresh or
\* has just recorded a grant for the same platform.
InitPipeline ==
    /\ TaskInit
    /\ \E c \in Policies : configs = [p \in ConfiguredSites |-> c]
    /\ retry_config \in { r \in RetryConfigs : r.max_delay = MaxDelay /\ r.jitter }
    /\ scrape_jobs \in {"jobspy", "None"}
    /\ sites = << >>
    /\ kind = [t \in TaskIds |-> "pipeline"]
    /\ \E s \in {"indeed", "other"} : site = [t \in TaskIds |-> s]
    /\ \/ /\ trackers = [p \in {} |-> RequestTracker]
          /\ grants = [p \in Platforms |-> << >>]
       \/ /\ trackers = [p \in {site[1]} |->
                           [minute_requests |-> << 0 >>, hour_requests |-> << 0 >>,
                            last_request_time |-> 0]]
          /\ grants = [p \in Platforms |-> IF p = site[1] THEN << 0 >> ELSE << >>]
    /\ pc = [t \in TaskIds |-> IF t = 1 THEN "pending" ELSE "unused"]
    /\ wake = [t \in TaskIds |-> 0]
    /\ mpc = "none"
    /\ OthersUnused

NextPipeline ==
    \/ Tick
    \/ \E t \in TaskIds : ScrapeJobsAsync(t)
    \/ \E t \in TaskIds : AcquireGrant(t)
    \/ \E t \in TaskIds : AcquireWait(t)
    \/ \E t \in TaskIds : PipelineAcquired(t)
    \/ \E t \in TaskIds : FetchComplete(t)
    \/ \E t \in TaskIds : BackoffWake(t)

SpecPipeline == InitPipeline /\ [][NextPipeline]_vars

\* MaxTasks coroutines call acquire on one RateLimiter at instants of StartTimes.
InitLimiter ==
    /\ TaskInit
    /\ trackers = [p \in {} |-> RequestTracker]
    /\ grants = [p \in Platforms |-> << >>]
    /\ \E c \in Policies : configs = [p \in ConfiguredSites |-> c]
    /\ retry_config \in { r \in RetryConfigs : r.max_delay = MaxDelay /\ r.max_retries = 1 /\ r.jitter }
    /\ scrape_jobs = "jobspy"
    /\ sites = << >>
    /\ kind = [t \in TaskIds |-> "caller"]
    /\ site \in { f \in [TaskIds -> {"indeed", "other"}] : f[1] = "indeed" }
    /\ pc = [t \in TaskIds |-> "pending"]
    /\ wake \in { w \in [TaskIds -> StartTimes] : \A t \in TaskIds : t > 1 => w[t - 1] <= w[t] }
    /\ mpc = "none"
    /\ OthersUnused

NextLimiter ==
    \/ Tick
    \/ \E t \in TaskIds : CallAcquire(t)
    \/ \E t \in TaskIds : AcquireGrant(t)
    \/ \E t \in TaskIds : AcquireWait(t)
    \/ \E t \in TaskIds : AcquireReturn(t)

SpecLimiter == InitLimiter /\ [][NextLimiter]_vars

\* All callers of acquire are scheduled and timers fire: the event loop runs
\* every coroutine that is ready.
LimiterFairness ==
    /\ WF_vars(Tick)
    /\ \A t \in TaskIds :
          /\ WF_vars(CallAcquire(t))
          /\ WF_vars(AcquireGrant(t) \/ AcquireWait(t))
          /\ WF_vars(AcquireReturn(t))

SpecLimiterFair == InitLimiter /\ [][NextLimiter]_vars /\ LimiterFairness

\* A JobScraper on which nothing has been called yet.
ScraperIdle ==
    /\ TaskInit
    /\ trackers = [p \in {} |-> RequestTracker]
    /\ grants = [p \in Platforms |-> << >>]
    /\ scrape_jobs = "jobspy"
    /\ sites = << >>
    /\ mpc = "none"
    /\ wake = [t \in TaskIds |-> 0]

\* One call of batch_scrape_async on a fresh JobScraper whose RetryConfig allows
\* one attempt, so that retry_async never sleeps.
InitBatch ==
    /\ ScraperIdle
    /\ configs = [p \in ConfiguredSites |-> RateLimitConfig(2, 2, 4)]
    /\ retry_config \in { r \in RetryConfigs : r.max_delay = MaxDelay /\ r.jitter /\ r.max_retries = 1 }
    /\ kind = [t \in TaskIds |-> "pipeline"]
    /\ site = [t \in TaskIds |-> "indeed"]
    /\ pc = [t \in TaskIds |-> "unused"]
    /\ queries \in SeqsUpTo({"indeed", "other"}, MaxQueries)
    /\ batch_size \in 1..MaxTasks
    /\ batch_i = 0 /\ bresults = << >> /\ bpc = "pending" /\ bwake = 0
    /\ chunks = 0 /\ pacing = << >>
    /\ query_outcome = [q \in 1..Len(queries) |-> Unset]
    /\ DatabaseUnused /\ ApiUnused
    /\ delay_log = << >>
    /\ call_times = [t \in TaskIds |-> << >>]

NextBatch ==
    \/ Tick
    \/ BatchScrapeAsync
    \/ \E t \in TaskIds : ScrapeJobsAsync(t)
    \/ \E t \in TaskIds : AcquireGrant(t)
    \/ \E t \in TaskIds : AcquireWait(t)
    \/ \E t \in TaskIds : PipelineAcquired(t)
    \/ \E t \in TaskIds : FetchComplete(t)
    \/ BatchGathered
    \/ BatchResume

SpecBatch == InitBatch /\ [][NextBatch]_vars

\* calculate_delay applied to the attempt numbers of AttemptNumbers for one config.
InitBackoff ==
    /\ ScraperIdle
    /\ configs = [p \in ConfiguredSites |-> RateLimitConfig(2, 2, 4)]
    /\ retry_config \in BackoffConfigs
    /\ kind = [t \in TaskIds |-> "pipeline"]
    /\ site = [t \in TaskIds |-> "indeed"]
    /\ pc = [t \in TaskIds |-> "unused"]
    /\ OthersUnused

NextBackoff == CalculateDelayCall

SpecBackoff == InitBackoff /\ [][NextBackoff]_vars

\* The policy of the sequential-acquire scenario: 2 per minute, 100 per hour, 1 s.
SequencePolicy == RateLimitConfig(2, 100, 2)

\* One caller awaits acquire MaxCalls times in a row on one platform.
InitSequence ==
    /\ ScraperIdle
    /\ \E c \in Policies \cup {SequencePolicy} : configs = [p \in ConfiguredSites |-> c]
    /\ retry_config \in { r \in RetryConfigs : r.max_delay = MaxDelay /\ r.max_retries = 1 /\ r.jitter }
    /\ kind = [t \in TaskIds |-> "sequence"]
    /\ \E s \in {"indeed", "other"} : site = [t \in TaskIds |-> s]
    /\ pc = [t \in TaskIds |-> IF t = 1 THEN "pending" ELSE "unused"]
    /\ OthersUnused

NextSequence ==
    \/ Tick
    \/ \E t \in TaskIds : SequenceCall(t)
    \/ \E t \in TaskIds : AcquireGrant(t)
    \/ \E t \in TaskIds : AcquireWait(t)
    \/ \E t \in TaskIds : SequenceReturn(t)

SpecSequence == InitSequence /\ [][NextSequence]_vars

\* The grants of a burst that used up the default per-minute limit, one every
\* DefaultMinDelay.
PriorGrants == [i \in 1..DefaultRequestsPerMinute |-> (i - 1) * DefaultMinDelay]

\* Callers of acquire on a platform RateLimiter.__init__ gives no policy: the
\* platform is new to the limiter, or has just served the burst of PriorGrants.
InitDefault ==
    /\ attempt = [t \in TaskIds |-> 0]
    /\ last_exception = [t \in TaskIds |-> "None"]
    /\ outcomes = [t \in TaskIds |-> << >>]
    /\ backoffs = [t \in TaskIds |-> << >>]
    /\ retry_result = [t \in TaskIds |-> Unset]
    /\ result = [t \in TaskIds |-> Unset]
    /\ output = EmptyDict
    /\ acq = [t \in TaskIds |-> NoAcquire]
    /\ fetches = [t \in TaskIds |-> << >>]
    /\ \E prior \in { << >>, PriorGrants } :
          /\ grants = [p \in Platforms |-> IF p = "other" THEN prior ELSE << >>]
          /\ IF prior = << >>
             THEN /\ trackers = [p \in {} |-> RequestTracker]
                  /\ clock = 0
             ELSE /\ trackers = [p \in {"other"} |->
                                   [minute_requests |-> prior, hour_requests |-> prior,
                                    last_request_time |-> prior[Len(prior)]]]
                  /\ clock = prior[Len(prior)]
    /\ configs = [p \in ConfiguredSites |-> RateLimitConfig(2, 2, 4)]
    /\ retry_config \in { r \in RetryConfigs : r.max_delay = MaxDelay /\ r.max_retries = 1 /\ r.jitter }
    /\ scrape_jobs = "jobspy"
    /\ sites = << >>
    /\ kind = [t \in TaskIds |-> "caller"]
    /\ site = [t \in TaskIds |-> "other"]
    /\ pc = [t \in TaskIds |-> "pending"]
    /\ wake \in { w \in [TaskIds -> StartTimes] : \A t \in TaskIds : t > 1 => w[t - 1] <= w[t] }
    /\ mpc = "none"
    /\ OthersUnused

SpecDefault == InitDefault /\ [][NextLimiter]_vars

\* The grants of a burst that used up a limit of policy c, one every
\* min_delay_seconds and at least a tick apart.
FullWindow(c) ==
    [i \in 1..Min(c.requests_per_minute, c.requests_per_hour) |->
        (i - 1) * SetMax({c.min_delay_seconds, 1})]

\* Callers of acquire arrive while a burst has just filled the tracker of
\* "indeed": those on "indeed" wait for the same entry to leave a window, a
\* caller on another platform meets them blocked.
InitRace ==
    /\ attempt = [t \in TaskIds |-> 0]
    /\ last_exception = [t \in TaskIds |-> "None"]
    /\ outcomes = [t \in TaskIds |-> << >>]
    /\ backoffs = [t \in TaskIds |-> << >>]
    /\ retry_result = [t \in TaskIds |-> Unset]
    /\ result = [t \in TaskIds |-> Unset]
    /\ output = EmptyDict
    /\ acq = [t \in TaskIds |-> NoAcquire]
    /\ fetches = [t \in TaskIds |-> << >>]
    /\ \E c \in Policies :
          /\ configs = [p \in ConfiguredSites |-> c]
          /\ clock = FullWindow(c)[Len(FullWindow(c))]
          /\ trackers = [p \in {"indeed"} |->
                           [minute_requests |-> FullWindow(c),
                            hour_requests |-> FullWindow(c),
                            last_request_time |-> FullWindow(c)[Len(FullWindow(c))]]]
          /\ grants = [p \in Platforms |-> IF p = "indeed" THEN FullWindow(c) ELSE << >>]
    /\ retry_config \in { r \in RetryConfigs : r.max_delay = MaxDelay /\ r.max_retries = 1 /\ r.jitter }
    /\ scrape_jobs = "jobspy"
    /\ sites = << >>
    /\ kind = [t \in TaskIds |-> "caller"]
    /\ site \in { f \in [TaskIds -> {"indeed", "other"}] : f[1] = "indeed" }
    /\ pc = [t \in TaskIds |-> "pending"]
    /\ wake \in { w \in [TaskIds -> StartTimes] : \A t \in TaskIds : t > 1 => w[t - 1] <= w[t] }
    /\ mpc = "none"
    /\ OthersUnused

SpecRace == InitRace /\ [][NextLimiter]_vars

\* The API process before its first request; jobspy is installed.  A request
\* names at most one site here: the RateLimiter built for it then has a single
\* caller, whose first evaluation finds an empty tracker and grants, so that
\* the waiting branch of acquire is never entered.
InitApi ==
    /\ ScraperIdle
    /\ configs = DefaultConfigs
    /\ retry_config = DefaultRetryConfig
    /\ kind = [t \in TaskIds |-> "pipeline"]
    /\ site = [t \in TaskIds |-> "indeed"]
    /\ pc = [t \in TaskIds |-> "unused"]
    /\ OthersUnused

NextApi ==
    \/ Tick
    \/ \E ss \in SeqsUpTo(ConfiguredSites, 1) : SearchJobs(ss)
    \/ \E t \in TaskIds : ScrapeJobsAsync(t)
    \/ \E t \in TaskIds : AcquireGrant(t)
    \/ \E t \in TaskIds : PipelineAcquired(t)
    \/ \E t \in TaskIds : FetchComplete(t)
    \/ \E t \in TaskIds : BackoffWake(t)
    \/ GatherReturn

SpecApi == InitApi /\ [][NextApi]_vars

\* A process that has imported the database module; the database file is new,
\* or was left by an earlier run after the first statement or after all of them.
InitDatabase ==
    /\ ScraperIdle
    /\ configs = [p \in ConfiguredSites |-> RateLimitConfig(2, 2, 4)]
    /\ retry_config \in { r \in RetryConfigs : r.max_delay = MaxDelay /\ r.max_retries = 1 /\ r.jitter }
    /\ kind = [t \in TaskIds |-> "pipeline"]
    /\ site = [t \in TaskIds |-> "indeed"]
    /\ pc = [t \in TaskIds |-> "unused"]
    /\ BatchUnused
    /\ delay_log = << >>
    /\ call_times = [t \in TaskIds |-> << >>]
    /\ db_instance = "None" /\ db_lock = 0 /\ pool = NoPool /\ pool_lock = 0
    /\ constructed = 0
    /\ schema \in { Created(0), Created(1), Created(Len(Statements)) }
    /\ table_rows = [x \in Tables |-> 0]
    /\ schema_log = << >>
    /\ tpc = [t \in Threads |-> "start"] /\ top = [t \in Threads |-> "none"]
    /\ tgot = [t \in Threads |-> NotCalled] /\ tops = [t \in Threads |-> 0]
    /\ PoolsUnused /\ ApiUnused

NextDatabase ==
    \/ \E t \in Threads : GetDatabase(t)
    \/ \E t \in Threads : GetDatabaseLock(t)
    \/ \E t \in Threads : GetDatabaseLocked(t)
    \/ \E t \in Threads : \E method \in {"initialize_schema", "get_pool", "execute_mutation"} : CallMethod(t, method)
    \/ \E t \in Threads : GetPoolCheck(t)
    \/ \E t \in Threads : GetPoolLock(t)
    \/ \E t \in Threads : GetPoolLocked(t)
    \/ \E t \in Threads : GetPoolReturn(t)
    \/ \E t \in Threads : InitializeSchema(t)
    \/ \E t \in Threads : ExecuteMutation(t)

SpecDatabase == InitDatabase /\ [][NextDatabase]_vars

\* Database and scraper parts that the pool scenarios leave alone.
PoolScenario ==
    /\ ScraperIdle
    /\ configs = [p \in ConfiguredSites |-> RateLimitConfig(2, 2, 4)]
    /\ retry_config \in { r \in RetryConfigs : r.max_delay = MaxDelay /\ r.max_retries = 1 /\ r.jitter }
    /\ kind = [t \in TaskIds |-> "pipeline"]
    /\ site = [t \in TaskIds |-> "indeed"]
    /\ pc = [t \in TaskIds |-> "unused"]
    /\ BatchUnused /\ ApiUnused
    /\ delay_log = << >>
    /\ call_times = [t \in TaskIds |-> << >>]
    /\ db_instance = "None" /\ db_lock = 0 /\ pool_lock = 0
    /\ schema = {} /\ table_rows = [x \in Tables |-> 0] /\ schema_log = << >>
    /\ tpc = [t \in Threads |-> "idle"] /\ top = [t \in Threads |-> "none"]
    /\ tops = [t \in Threads |-> 0]
    /\ conn = [t \in Threads |-> 0]
    /\ exited = [t \in Threads |-> NoExit]

\* ConnectionPool(path, pool_size) has been constructed and every thread holds
\* it; no Database is involved.
InitPool ==
    /\ PoolScenario
    /\ \E size \in 1..MaxPoolSize :
          /\ pools = << NewPool(DefaultPath, size, 0) >>
          /\ conns = InitializePool(DefaultPath, 1, size)
          /\ tgot = [t \in Threads |-> [id |-> 1, pool_size |-> size]]
    /\ pool = NoPool /\ constructed = 1
    /\ db_path = [t \in Threads |-> DefaultPath]

NextPool ==
    \/ \E t \in Threads : EnterContext(t)
    \/ \E t \in Threads : PoolGet(t)
    \/ \E t \in Threads : PoolTimeout(t)
    \/ \E t \in Threads : \E raised \in BodyErrors, dirty \in BOOLEAN : BodyEnd(t, raised, dirty)
    \/ \E t \in Threads : GeneratorClose(t)

SpecPool == InitPool /\ [][NextPool]_vars

\* Queue.get(timeout=10.0) returns or raises within its timeout, whatever the
\* other threads do; how long a body runs is up to the caller.
PoolFairness == \A t \in Threads : WF_vars(PoolGet(t) \/ PoolTimeout(t))

SpecPoolFair == InitPool /\ [][NextPool]_vars /\ PoolFairness

\* Every thread has constructed a Database of its own, Database(db_path), and
\* calls get_connection and close on it; no pool exists yet.
InitClose ==
    /\ PoolScenario
    /\ pool = NoPool /\ constructed = 0
    /\ pools = << >> /\ conns = << >>
    /\ tgot = [t \in Threads |-> NotCalled]
    /\ db_path \in [Threads -> Paths]

NextClose ==
    \/ \E t \in Threads : \E method \in {"get_connection", "close"} : CallMethod(t, method)
    \/ \E t \in Threads : GetPoolCheck(t)
    \/ \E t \in Threads : GetPoolLock(t)
    \/ \E t \in Threads : GetPoolLocked(t)
    \/ \E t \in Threads : GetPoolReturn(t)
    \/ \E t \in Threads : NoPoolError(t)
    \/ \E t \in Threads : PoolGet(t)
    \/ \E t \in Threads : PoolTimeout(t)
    \/ \E t \in Threads : \E raised \in BodyErrors, dirty \in BOOLEAN : BodyEnd(t, raised, dirty)
    \/ \E t \in Threads : GeneratorClose(t)
    \/ \E t \in Threads : CloseCheck(t)
    \/ \E t \in Threads : CloseRead(t)
    \/ \E t \in Threads : CloseAll(t)
    \/ \E t \in Threads : CloseClear(t)

SpecClose == InitClose /\ [][NextClose]_vars


\* ------------------------------------------------------------------ claims
Range(q) == { q[i] : i \in 1..Len(q) }

NoDuplicates(q) == \A i, j \in 1..Len(q) : q[i] = q[j] => i = j

\* The grants of platform p recorded in the window of length w that ends at grant i.
GrantsInWindow(p, i, w) ==
    { j \in 1..Len(grants[p]) :
        grants[p][i] - w < grants[p][j] /\ grants[p][j] <= grants[p][i] }

AllRaised(t) == \A i \in 1..Len(outcomes[t]) : outcomes[t][i].kind = "raise"

AllEmpty(t) ==
    \A i \in 1..Len(outcomes[t]) : outcomes[t][i] = DataFrame(<< >>)

\* output.get(p): None when the dict has no entry for p.
Lookup(d, p) == IF p \in DOMAIN d THEN d[p] ELSE NoneValue

\* C1: on every platform, the grants recorded within any rolling 60-second
\* window never number more than requests_per_minute.
C1_MinuteLimit ==
    \A p \in Platforms : \A i \in 1..Len(grants[p]) :
        Cardinality(GrantsInWindow(p, i, MinuteWindow)) <= ConfigFor(p).requests_per_minute

\* C2: on every platform, the grants recorded within any rolling 3600-second
\* window never number more than requests_per_hour.
C2_HourLimit ==
    \A p \in Platforms : \A i \in 1..Len(grants[p]) :
        Cardinality(GrantsInWindow(p, i, HourWindow)) <= ConfigFor(p).requests_per_hour

\* C3: two consecutive grants of one platform are at least min_delay_seconds apart.
C3_MinDelay ==
    \A p \in Platforms : \A i \in 2..Len(grants[p]) :
        grants[p][i] - grants[p][i - 1] >= ConfigFor(p).min_delay_seconds

\* Two callers were granted on a platform whose minimum delay is positive, the
\* second exactly min_delay_seconds after the first.
C3_Witness ==
    \E p \in Platforms :
        /\ Len(grants[p]) >= 2
        /\ ConfigFor(p).min_delay_seconds > 0
        /\ grants[p][2] - grants[p][1] = ConfigFor(p).min_delay_seconds

\* C4: one call of retry_async invokes the wrapped operation at most
\* max_retries times.
C4_AtMostMaxRetries ==
    \A t \in TaskIds : Len(outcomes[t]) <= retry_config.max_retries

\* A call with max_retries = 2 used both attempts and ended.
C4_Witness ==
    \E t \in TaskIds :
        /\ pc[t] = "done" /\ retry_config.max_retries = 2
        /\ Len(outcomes[t]) = 2 /\ AllRaised(t)

\* C5: when every one of the max_retries attempts fails, retry_async raises
\* exactly the exception of the final attempt.
C5_LastError ==
    \A t \in TaskIds :
        ( /\ pc[t] = "done" /\ retry_config.max_retries >= 1
          /\ Len(outcomes[t]) = retry_config.max_retries /\ AllRaised(t) )
        => retry_result[t] = Raised(outcomes[t][Len(outcomes[t])].error)

\* Two attempts failed with different exceptions and the call ended.
C5_Witness ==
    \E t \in TaskIds :
        /\ pc[t] = "done" /\ Len(outcomes[t]) = 2 /\ AllRaised(t)
        /\ outcomes[t][1].error # outcomes[t][2].error

\* C6: the first successful attempt ends the call: it is the last invocation,
\* its value is what retry_async returns, and the only backoff delays taken
\* are those after the failures before it.
C6_FirstSuccessReturns ==
    \A t \in TaskIds : \A i \in 1..Len(outcomes[t]) :
        outcomes[t][i].kind # "raise" =>
            /\ i = Len(outcomes[t])
            /\ pc[t] = "done"
            /\ retry_result[t] = Scrape(outcomes[t][i])
            /\ Len(backoffs[t]) = i - 1

\* A call whose first attempt failed and whose second succeeded.
C6_Witness ==
    \E t \in TaskIds :
        /\ Len(outcomes[t]) = 2
        /\ outcomes[t][1].kind = "raise" /\ outcomes[t][2].kind = "df"

\* One requested platform failed on every attempt and every other requested
\* platform succeeded at its only attempt.
OneFailsOthersSucceed(j) ==
    /\ j \in 1..Len(sites)
    /\ retry_config.max_retries >= 1
    /\ Len(outcomes[j]) = retry_config.max_retries /\ AllRaised(j)
    /\ \A i \in 1..Len(sites) : i # j => Len(outcomes[i]) = 1 /\ ~AllRaised(i)

\* C7: when one platform's fetcher always fails and the others always succeed,
\* the failure reaches scrape_multiple_sites_async as a None result, not as an
\* exception, and the entry of each successful platform in the returned dict
\* is what its own pipeline returns from its own fetch.
C7_Isolation ==
    \A j \in TaskIds :
        (mpc = "returned" /\ NoDuplicates(sites) /\ OneFailsOthersSucceed(j)) =>
            \A i \in 1..Len(sites) : i # j =>
                /\ result[j] = NoneValue
                /\ result[i] = Scrape(outcomes[i][1])
                /\ Lookup(output, sites[i]) = Scrape(outcomes[i][1])

\* The call returned; one platform failed twice, another delivered listings.
C7_Witness ==
    \E j \in TaskIds :
        /\ mpc = "returned" /\ NoDuplicates(sites) /\ Len(sites) >= 2
        /\ OneFailsOthersSucceed(j) /\ Len(outcomes[j]) = 2
        /\ \E i \in 1..Len(sites) : i # j /\ outcomes[i][1].rows # << >>

\* C8: the mapping returned for a non-empty request has exactly one entry per
\* requested platform (stated for a process in which jobspy is installed).
C8_Complete ==
    (mpc = "returned" /\ sites # << >> /\ scrape_jobs = "jobspy") =>
        DOMAIN output = Range(sites)

\* C9: when every fetch succeeds with zero listings, scrape_jobs_async returns
\* the non-empty fallback listings.
C9_FallbackOnEmpty ==
    \A t \in TaskIds :
        (pc[t] = "done" /\ outcomes[t] # << >> /\ AllEmpty(t)) =>
            result[t] = DataFrame(FallbackJobs)

\* C10: when all max_retries attempts fail, scrape_jobs_async returns the
\* fallback listings, every one tagged as mock data.
C10_FallbackOnFailure ==
    \A t \in TaskIds :
        ( /\ pc[t] = "done" /\ retry_config.max_retries >= 1
          /\ Len(outcomes[t]) = retry_config.max_retries /\ AllRaised(t) )
        => /\ result[t].kind = "df"
           /\ result[t].rows = FallbackJobs
           /\ \A k \in 1..Len(result[t].rows) : result[t].rows[k].source = "MockDB"

Ceil(n, k) == (n + k - 1) \div k

\* C11: batch_scrape_async with n queries and batch_size k sleeps between
\* batches exactly ceil(n/k) - 1 times (never when n = 0): the j-th sleep
\* begins after the j-th batch and is followed by batch j + 1, and no sleep
\* follows the last batch.
C11_PacingDelays ==
    LET n == Len(queries)
        k == batch_size
    IN /\ \A j \in 1..Len(pacing) : pacing[j] = j
       /\ bpc = "gathering" => Len(pacing) = chunks - 1
       /\ bpc = "pacing" => Len(pacing) = chunks /\ chunks < Ceil(n, k)
       /\ bpc = "returned" =>
             /\ chunks = Ceil(n, k)
             /\ Len(pacing) = IF n = 0 THEN 0 ELSE Ceil(n, k) - 1

\* Three queries in batches of two were processed: one sleep, between the batches.
C11_Witness ==
    /\ bpc = "returned" /\ Len(queries) = 3 /\ batch_size = 2
    /\ chunks = 2 /\ pacing = << 1 >>

\* C12: batch_scrape_async returns one outcome per query, in the order of the
\* queries: entry q is what the scrape_jobs_async coroutine of query q
\* returned (listings of the platform of query q, or None), also when some
\* queries of a batch fail.
C12_OnePerQuery ==
    bpc = "returned" =>
        /\ Len(bresults) = Len(queries)
        /\ \A q \in 1..Len(queries) :
              /\ bresults[q] = query_outcome[q]
              /\ bresults[q].kind \in {"df", "none"}
              /\ \A r \in 1..Len(bresults[q].rows) : bresults[q].rows[r].source = queries[q]

\* Two batches were processed; in the first, one query failed and the other,
\* on another platform, delivered listings.
C12_Witness ==
    /\ bpc = "returned" /\ Len(queries) = 3 /\ batch_size = 2
    /\ queries[1] # queries[2]
    /\ bresults[1] = NoneValue /\ bresults[2].kind = "df" /\ bresults[3].kind = "df"

\* C13: a failure of a platform pipeline never reaches the caller of
\* scrape_multiple_sites_async as an exception: a pipeline whose attempts all
\* failed ends with a value (None), gather does not raise, and the call returns
\* a dict of DataFrames.
C13_NeverRaises ==
    /\ mpc # "raised"
    /\ \A i \in 1..Len(sites) : pc[i] = "done" => result[i].kind \in {"df", "none"}
    /\ mpc = "returned" => \A p \in DOMAIN output : output[p].kind = "df"

\* The call returned although the pipelines of both requested platforms failed.
C13_Witness ==
    /\ mpc = "returned" /\ Len(sites) = 2
    /\ \A i \in 1..Len(sites) : retry_result[i].kind = "raise" /\ outcomes[i] # << >>

\* C14: calculate_delay has a delay before jitter for every attempt number;
\* that delay never decreases from one attempt number to a later one, never
\* exceeds max_delay, and stays at max_delay once it is there.
C14_BaseMonotoneBounded ==
    \A i, j \in 1..Len(delay_log) :
        /\ delay_log[i].raised = "None"
        /\ delay_log[i].base <= retry_config.max_delay
        /\ i < j => /\ delay_log[i].base <= delay_log[j].base
                    /\ delay_log[i].base = retry_config.max_delay
                          => delay_log[j].base = retry_config.max_delay

\* C15: acquire for a platform without a configured policy creates its tracker
\* and enforces the default RateLimitConfig on it: 10 grants per rolling
\* minute, 100 per rolling hour, 1.0 s between grants.
C15_DefaultPolicy ==
    \A p \in Platforms \ DOMAIN configs :
        /\ ConfigFor(p) = RateLimitConfig(10, 100, 2)
        /\ \A t \in TaskIds : (site[t] = p /\ pc[t] # "pending") => p \in DOMAIN trackers
        /\ \A i \in 1..Len(grants[p]) :
              /\ Cardinality(GrantsInWindow(p, i, MinuteWindow)) <= 10
              /\ Cardinality(GrantsInWindow(p, i, HourWindow)) <= 100
              /\ i > 1 => grants[p][i] - grants[p][i - 1] >= 2

\* C16: a request for an empty list of platforms is rejected: the validator
\* refuses it or scrape_multiple_sites_async does not return a result for it.
C16_EmptyRejected ==
    sites = << >> => (~ValidateSites(sites) \/ mpc # "returned")

\* C17: every caller of acquire is eventually granted and returns.
C17_EventuallyReturns == \A t \in TaskIds : <>(pc[t] = "done")

\* Every caller has returned, and one of them had to wait for the hour window:
\* its grant is later than the last arrival and an hour after the grant before.
C17_Witness ==
    /\ \A t \in TaskIds : pc[t] = "done"
    /\ \E p \in Platforms :
          /\ Len(grants[p]) >= 2
          /\ grants[p][1] >= MinuteWindow - 1
          /\ grants[p][2] - grants[p][1] >= HourWindow - MaxSkew

\* C18: the i-th and the j-th of the calls one caller makes in a row on one
\* platform are entered at least (j - i) * min_delay_seconds apart; with the
\* policy (2 per minute, 100 per hour, 1 s) the third call is entered at
\* least 2 s after the first.
C18_SequentialSpan ==
    \A t \in TaskIds : \A i, j \in 1..Len(call_times[t]) :
        i < j => call_times[t][j] - call_times[t][i]
                    >= (j - i) * ConfigFor(site[t]).min_delay_seconds

\* Under the policy (2, 100, 1 s) the third call was entered exactly 2 s after
\* the first.
C18_Witness ==
    /\ ConfigFor(site[1]) = SequencePolicy
    /\ Len(call_times[1]) = 3
    /\ call_times[1][3] - call_times[1][1] = 2 * SequencePolicy.min_delay_seconds

\* C19: every call of initialize_schema ends without an error and leaves the
\* four tables in the database, and every call after the first leaves the
\* database as it found it.
C19_SchemaIdempotent ==
    \A i \in 1..Len(schema_log) :
        /\ schema_log[i].error = "None"
        /\ Tables \subseteq schema_log[i].after.schema
        /\ i > 1 => schema_log[i].after = schema_log[i].before

\* get_database created the schema in a new file, a row was inserted, and
\* initialize_schema was called again.
C19_Witness ==
    /\ Len(schema_log) >= 2
    /\ schema_log[1].before.schema = {}
    /\ schema_log[2].before.rows["jobs"] = 1

C21_GrantSleep ==
    \A t \in TaskIds :
        /\ acq[t].returned # NoTime =>
              /\ acq[t].granted # NoTime
              /\ acq[t].returned - acq[t].granted
                    >= ConfigFor(site[t]).min_delay_seconds + acq[t].jitter
        /\ (acq[t].granted # NoTime /\ acq[t].returned = NoTime) => pc[t] = "granted"

\* A call that was admissible at its first evaluation returned exactly
\* min_delay_seconds + jitter later, with a positive delay and a positive jitter.
C21_Witness ==
    \E t \in TaskIds :
        /\ acq[t].returned # NoTime /\ acq[t].waits = << >>
        /\ ConfigFor(site[t]).min_delay_seconds > 0 /\ acq[t].jitter > 0
        /\ acq[t].returned - acq[t].granted
              = ConfigFor(site[t]).min_delay_seconds + acq[t].jitter

SetMin(S) == CHOOSE x \in S : \A y \in S : x <= y

\* The wait times of the constraints that the evaluation recorded as w found
\* violated under policy c: time until the oldest minute entry expires, time
\* until the oldest hour entry expires, remaining minimum-delay time.
ViolatedWaits(w, c) ==
    (IF Len(w.minute_requests) >= c.requests_per_minute /\ w.minute_requests # << >>
     THEN {w.minute_requests[1] + MinuteWindow - w.now} ELSE {})
    \cup
    (IF Len(w.hour_requests) >= c.requests_per_hour /\ w.hour_requests # << >>
     THEN {w.hour_requests[1] + HourWindow - w.now} ELSE {})
    \cup
    (IF w.last_request_time # NoTime /\ w.now - w.last_request_time < c.min_delay_seconds
     THEN {c.min_delay_seconds - (w.now - w.last_request_time)} ELSE {})

\* The evaluation that follows wait i of task t is not made before the wait is over.
ReEvaluatedAfter(t, i) ==
    /\ i < Len(acq[t].waits) => acq[t].waits[i + 1].now >= acq[t].waits[i].until
    /\ (i = Len(acq[t].waits) /\ acq[t].granted # NoTime) =>
          acq[t].granted >= acq[t].waits[i].until

\* C22: an inadmissible call of acquire sleeps for the minimum of the wait
\* times of the violated constraints, then evaluates again.
C22_MinimumWait ==
    \A t \in TaskIds : \A i \in 1..Len(acq[t].waits) :
        LET w == acq[t].waits[i]
            ws == ViolatedWaits(w, ConfigFor(site[t]))
        IN /\ ws # {} => w.slept = SetMin(ws)
           /\ ReEvaluatedAfter(t, i)

\* C22 as amended: an inadmissible call of acquire sleeps for the maximum of
\* the wait times of the violated constraints (for min_delay_seconds when no
\* violated constraint has a wait time), then evaluates again.
C22_MaximumWait ==
    \A t \in TaskIds : \A i \in 1..Len(acq[t].waits) :
        LET w == acq[t].waits[i]
            ws == ViolatedWaits(w, ConfigFor(site[t]))
        IN /\ ws # {} => w.slept = SetMax(ws)
           /\ ws = {} => w.slept = ConfigFor(site[t]).min_delay_seconds
           /\ w.until - w.now \in w.slept..(w.slept + MaxSkew)
           /\ ReEvaluatedAfter(t, i)

\* A call found the minute window, the hour window and the minimum delay
\* violated, with three different wait times, slept the longest of them and
\* was granted when it woke.
C22_Witness ==
    \E t \in TaskIds :
        /\ Len(acq[t].waits) = 1 /\ acq[t].granted # NoTime
        /\ Cardinality(ViolatedWaits(acq[t].waits[1], ConfigFor(site[t]))) = 3
        /\ acq[t].granted = acq[t].waits[1].until

\* A step that records a grant for platform p finds the three admission
\* conditions true of the tracker of p as it is at that instant: with the new
\* entry each window is within its limit, and the entry is at least
\* min_delay_seconds after the last request time the step found.
GrantAdmitted(p) ==
    grants'[p] # grants[p] =>
        /\ Len(grants'[p]) = Len(grants[p]) + 1
        /\ Len(trackers'[p].minute_requests) <= ConfigFor(p).requests_per_minute
        /\ Len(trackers'[p].hour_requests) <= ConfigFor(p).requests_per_hour
        /\ trackers[p].last_request_time # NoTime =>
              grants'[p][Len(grants'[p])] - trackers[p].last_request_time
                  >= ConfigFor(p).min_delay_seconds

\* C23: every grant is recorded in a step in which the three admission
\* conditions hold on the tracker at that instant, also the grant of a caller
\* that has waited: of two callers that wake for the same freed slot, the
\* second finds the slot taken and is not granted it.
C23_RecheckedGrants == [][\A p \in Platforms : GrantAdmitted(p)]_vars

\* Two callers slept until the same instant for the same entry to expire; one
\* was granted at that instant, the other evaluated again and had to wait anew.
C23_Witness ==
    \E t, u \in TaskIds :
        /\ t # u /\ site[t] = site[u]
        /\ Len(acq[t].waits) = 1 /\ Len(acq[u].waits) = 2
        /\ acq[t].waits[1].until = acq[u].waits[1].until
        /\ acq[t].granted = acq[t].waits[1].until
        /\ acq[u].waits[2].now = acq[t].granted

\* Coroutine t takes a step.
Moves(t) == pc'[t] # pc[t] \/ wake'[t] # wake[t] \/ acq'[t] # acq[t]

\* A step of a coroutine leaves the tracker and the grants of every platform
\* other than its own as they are.
OtherPlatformsUntouched(t) ==
    \A q \in Platforms \ {site[t]} :
        /\ grants'[q] = grants[q]
        /\ (q \in DOMAIN trackers') = (q \in DOMAIN trackers)
        /\ q \in DOMAIN trackers => trackers'[q] = trackers[q]

\* A caller that is alone on a platform new to the limiter is granted at its
\* first evaluation, whatever callers of other platforms are doing.
NotDelayedByOthers ==
    \A u \in TaskIds :
        ( /\ \A t \in TaskIds \ {u} : site[t] # site[u]
          /\ \/ grants[site[u]] = << >>
             \/ grants[site[u]] = << acq[u].granted >> )
        => acq[u].waits = << >>

\* C24: acquire(p) reads and modifies only the tracker of p: a step of a caller
\* of p leaves the windows and the last request time of every other platform
\* unchanged, and a caller blocked on p does not delay the grant of a caller
\* of another platform q.
C24_PlatformIsolation ==
    [][ /\ \A t \in TaskIds : Moves(t) => OtherPlatformsUntouched(t)
        /\ NotDelayedByOthers' ]_vars

\* While a caller of "indeed" sleeps in the wait of lines 174-193, a caller of
\* another platform that arrived later has been granted at its first evaluation.
C24_Witness ==
    \E t, u \in TaskIds :
        /\ site[t] # site[u]
        /\ pc[t] = "acquire" /\ acq[t].waits # << >> /\ ~Due(t)
        /\ acq[u].granted # NoTime /\ acq[u].waits = << >>
        /\ acq[u].called > acq[t].called
        /\ trackers[site[t]].minute_requests # << >>

\* The attempts (0-indexed) of task t that failed.
FailedAttempts(t) == { i \in 0..(Len(outcomes[t]) - 1) : outcomes[t][i + 1].kind = "raise" }

\* C25: retry_async sleeps after failed attempt i exactly when
\* i < max_retries - 1, for a delay that calculate_delay(i) can return, and
\* makes the next attempt only when that sleep is over; a run of k failed
\* attempts that exhausts the retries has slept k - 1 times, not after the
\* last attempt.
C25_BackoffBetweenAttempts ==
    \A t \in TaskIds :
        LET slept == { i \in FailedAttempts(t) : i < retry_config.max_retries - 1 } IN
        /\ slept = 0..(Len(backoffs[t]) - 1)
        /\ \A i \in slept :
              LET base == Min(retry_config.initial_delay * Pow(retry_config.exponential_base, i),
                              retry_config.max_delay)
              IN /\ backoffs[t][i + 1] >= base
                 /\ backoffs[t][i + 1] <= base + (IF retry_config.jitter THEN base \div 2 ELSE 0)
                 /\ i + 2 <= Len(fetches[t]) =>
                       fetches[t][i + 2] >= fetches[t][i + 1] + FetchTicks + backoffs[t][i + 1]
        /\ ( pc[t] = "done" /\ retry_result[t].kind = "raise" /\ outcomes[t] # << >> ) =>
              /\ Len(outcomes[t]) = retry_config.max_retries
              /\ Len(backoffs[t]) = Len(outcomes[t]) - 1

\* A run with max_retries = 2 failed twice and ended: one sleep, after the
\* first failure, and the second attempt began when it was over.
C25_Witness ==
    \E t \in TaskIds :
        /\ pc[t] = "done" /\ retry_config.max_retries = 2
        /\ FailedAttempts(t) = {0, 1}
        /\ Len(backoffs[t]) = 1
        /\ fetches[t][2] = fetches[t][1] + FetchTicks + backoffs[t][1]

\* C26: for every attempt number, calculate_delay returns
\* min(initial_delay * exponential_base^attempt, max_delay) when jitter is
\* disabled, and a value between that base and 1.5 times it, hence at most
\* 1.5 * max_delay, when jitter is enabled.
C26_DelayValue ==
    \A i \in 1..Len(delay_log) :
        /\ delay_log[i].raised = "None"
        /\ LET base == Min(retry_config.initial_delay
                               * Pow(retry_config.exponential_base, delay_log[i].attempt),
                           retry_config.max_delay)
           IN IF retry_config.jitter
              THEN /\ delay_log[i].delay >= base
                   /\ 2 * delay_log[i].delay <= 3 * base
                   /\ 2 * delay_log[i].delay <= 3 * retry_config.max_delay
              ELSE delay_log[i].delay = base

\* The pipelines that batch_scrape_async has created and that have not finished.
InFlight == { t \in TaskIds : pc[t] \notin {"unused", "done"} }

\* C27: in batch_scrape_async at most batch_size pipelines are in flight at
\* any instant, and the pipelines of a batch are created only when every
\* pipeline of the batch before has finished.
C27_BoundedConcurrency ==
    [][ /\ Cardinality(InFlight') <= batch_size'
        /\ chunks' > chunks => InFlight = {} ]_vars

\* A later batch is running with batch_size pipelines in flight, after the
\* results of all batches before it were appended.
C27_Witness ==
    /\ chunks >= 2 /\ bpc = "gathering"
    /\ Cardinality(InFlight) = batch_size
    /\ Len(bresults) = (chunks - 1) * batch_size
    /\ \E t \in InFlight : pc[t] = "fetching"

\* C28: scrape_multiple_sites_async runs one pipeline per element of sites and
\* returns its dict only when every one of them has finished, with listings or
\* with None; no pipeline takes a step after the call has returned.
C28_ReturnsAfterAll ==
    [][ /\ mpc' = "returned" =>
              /\ \A i \in 1..Len(sites) :
                    /\ pc'[i] = "done" /\ site[i] = sites[i]
                    /\ result'[i].kind \in {"df", "none"}
              /\ \A t \in TaskIds : t > Len(sites) => pc'[t] = "unused"
        /\ mpc = "returned" => (pc' = pc /\ result' = result /\ fetches' = fetches) ]_vars

\* The call returned for two platforms whose pipelines ended at different
\* instants, one with listings after a retry and one with None.
C28_Witness ==
    /\ mpc = "returned" /\ Len(sites) = 2
    /\ \E i, j \in 1..Len(sites) :
          /\ result[i].kind = "df" /\ Len(outcomes[i]) = 2
          /\ result[j].kind = "none" /\ Len(outcomes[j]) = 1
          /\ fetches[i][Len(fetches[i])] > fetches[j][Len(fetches[j])]

FetchCalls(p) ==
    { c \in TaskIds \X (1..(MaxRetries + 1)) : site[c[1]] = p /\ c[2] <= Len(fetches[c[1]]) }

\* C30: counting every invocation of the fetcher, retries included, no more
\* than requests_per_minute invocations against one platform fall in any
\* rolling 60-second window.
C30_FetchBudget ==
    \A p \in Platforms : \A c \in FetchCalls(p) :
        Cardinality({ d \in FetchCalls(p) :
                        /\ fetches[c[1]][c[2]] - MinuteWindow < fetches[d[1]][d[2]]
                        /\ fetches[d[1]][d[2]] <= fetches[c[1]][c[2]] })
            <= ConfigFor(p).requests_per_minute

\* C31: the tracker of a platform lives as long as the process: whenever a
\* grant was recorded for a platform, across all search_jobs requests served so
\* far, the limiter in use has a tracker for it whose last_request_time is the
\* latest grant and whose minute window holds every grant of the last minute;
\* and two grants of a platform are at least its minimum delay apart.
C31_TrackersPersist ==
    \A p \in Platforms :
        grants[p] # << >> =>
            /\ p \in DOMAIN trackers
            /\ trackers[p].last_request_time = grants[p][Len(grants[p])]
            /\ \A i \in 1..Len(grants[p]) :
                  /\ grants[p][i] > clock - MinuteWindow
                        => grants[p][i] \in Range(trackers[p].minute_requests)
                  /\ i > 1 => grants[p][i] - grants[p][i - 1] >= ConfigFor(p).min_delay_seconds

\* C32: scrape_jobs_async does not raise for a fetch error: whatever the fetcher
\* raised, on whichever attempt, the coroutine ends with a value, and when
\* retry_async raised (every attempt failed, the last one too) that value is None.
C32_FetchErrorsAbsorbed ==
    \A t \in TaskIds :
        pc[t] = "done" =>
            /\ result[t].kind \in {"df", "none"}
            /\ retry_result[t].kind = "raise" => result[t] = NoneValue
            /\ \A i \in 1..Len(outcomes[t]) :
                  outcomes[t][i].kind = "raise" => result[t].error = "-"

\* A pipeline whose attempts all failed, the last with another error than the
\* first, and which returned None.
C32_Witness ==
    \E t \in TaskIds :
        /\ pc[t] = "done" /\ result[t] = NoneValue
        /\ Len(outcomes[t]) = retry_config.max_retries /\ Len(outcomes[t]) >= 2
        /\ AllRaised(t)
        /\ outcomes[t][1].error # outcomes[t][Len(outcomes[t])].error

\* The first invocation of the fetcher returned a result without listings.
EmptyAtFirst(t) ==
    /\ outcomes[t] # << >>
    /\ outcomes[t][1].kind = "df" /\ outcomes[t][1].rows = << >>

\* C33: an empty result is not a failed attempt: when the fetcher returns zero
\* listings the retry loop ends there, with the fetcher invoked once, no backoff
\* delay taken, and the outcome of the pipeline (None) settled in that step.
C33_EmptyNotRetried ==
    \A t \in TaskIds :
        EmptyAtFirst(t) =>
            /\ Len(outcomes[t]) = 1 /\ Len(fetches[t]) = 1
            /\ backoffs[t] = << >>
            /\ pc[t] = "done"
            /\ retry_result[t] = NoneValue /\ result[t] = NoneValue

\* A pipeline allowed two attempts whose first fetch was empty.
C33_Witness ==
    \E t \in TaskIds :
        /\ EmptyAtFirst(t) /\ pc[t] = "done"
        /\ retry_config.max_retries = 2

Sorted(q) == \A i, j \in 1..Len(q) : i <= j => q[i] <= q[j]

\* C34: in every tracker, minute_requests and hour_requests are in
\* non-decreasing order, every instant of minute_requests is in hour_requests,
\* last_request_time is None exactly when no grant was recorded for the
\* platform, and otherwise no instant of either list is later than it.
C34_TrackerInvariants ==
    \A p \in DOMAIN trackers :
        LET tracker == trackers[p] IN
        /\ Sorted(tracker.minute_requests) /\ Sorted(tracker.hour_requests)
        /\ Range(tracker.minute_requests) \subseteq Range(tracker.hour_requests)
        /\ (tracker.last_request_time = NoTime) = (grants[p] = << >>)
        /\ \A x \in Range(tracker.minute_requests) \cup Range(tracker.hour_requests) :
              x <= tracker.last_request_time

\* A tracker after its second grant, the first of which has left the minute
\* window and is still in the hour window.
C34_Witness ==
    \E p \in DOMAIN trackers :
        /\ Len(grants[p]) = 2
        /\ Len(trackers[p].minute_requests) = 1
        /\ Len(trackers[p].hour_requests) = 2

\* C35: with every attempt of the fetcher coming back, limits that are all
\* positive and a fair event loop, scrape_multiple_sites_async returns: no
\* pipeline of the call waits forever.
C35_MultiSiteReturns == <>(mpc = "returned")

\* The call returned after two pipelines for one platform, the second of which
\* had to wait in acquire and then ran out of attempts.
C35_Witness ==
    /\ mpc = "returned" /\ Len(sites) = 2 /\ sites[1] = sites[2]
    /\ acq[2].waits # << >>
    /\ Len(outcomes[2]) = 2 /\ AllRaised(2)

\* The threads inside the body of a get_connection context.
InContext == { t \in Threads : tpc[t] = "body" }

\* C36: whatever the interleaving of get_connection contexts, the queue of a
\* pool never holds more than pool_size connections, no connection is held by
\* two contexts at once or held while it is in the queue, and a connection that
\* was handed to a context is, when the context has been left, back in the
\* queue or closed.
C36_PoolInvariants ==
    /\ \A p \in 1..Len(pools) :
          /\ Len(pools[p].queue) <= pools[p].pool_size
          /\ NoDuplicates(pools[p].queue)
    /\ \A t \in InContext :
          /\ \A u \in InContext : conn[t] = conn[u] => t = u
          /\ \A p \in 1..Len(pools) : conn[t] \notin Range(pools[p].queue)
    /\ \A t \in Threads :
          exited[t].conn # 0 => exited[t].returned \in {"pool", "closed"}

\* C37: when the body of a get_connection context raises, nothing of its
\* uncommitted work is left on the connection, the caller sees the exception
\* the body raised, and the connection is back in the queue or closed; for a
\* connection taken from the queue and for a temporary one alike.
C37_BodyRaises ==
    \A t \in Threads :
        (exited[t].conn # 0 /\ exited[t].raised # "None") =>
            /\ ~exited[t].in_transaction
            /\ exited[t].propagated = exited[t].raised
            /\ exited[t].returned \in {"pool", "closed"}

\* C38: get_connection yields in the end, and what it yields is an open
\* connection: a thread that waits at the queue gets a connection from it or,
\* the queue being empty when the timeout is over, a temporary one.
C38_EventuallyYields ==
    \A t \in Threads :
        (tpc[t] = "connected") ~> (tpc[t] = "body" /\ conns[conn[t]].open)

\* Every connection of the pool is checked out and another thread was given a
\* temporary connection.
C38_Witness ==
    \E t \in Threads :
        /\ tpc[t] = "body" /\ conns[conn[t]].temporary /\ conns[conn[t]].open
        /\ \A c \in 1..pools[1].pool_size :
              \E u \in Threads \ {t} : tpc[u] = "body" /\ conn[u] = c

\* No thread is working with pool p and Database._pool is not p.
Unreachable(p) ==
    /\ pool.id # p
    /\ \A t \in Threads : tpc[t] = "idle" \/ tgot[t].id # p

\* C39: once close has run on a pool and the contexts that were open on it have
\* been left, every connection the pool ever created is closed: none stays open
\* in a pool that can no longer be reached; and the pool that get_pool builds
\* afterwards is a new one.
C39_ClosedForGood ==
    /\ \A p \in 1..Len(pools) :
          Unreachable(p) =>
              \A c \in 1..Len(conns) : conns[c].pool = p => ~conns[c].open
    /\ pool # NoPool => pool.id = constructed

\* C40: a connection yielded by get_connection of Database(db_path = X) is a
\* connection to the file X, whichever Database created the pool.
C40_OwnPath ==
    \A t \in Threads :
        (tpc[t] = "body" /\ top[t] = "get_connection") =>
            conns[conn[t]].database_path = db_path[t]

====
